---- MODULE Spec2Model ----
(***************************************************************************)
(* Model of the grant resources of terraform-provider-scylla: the query    *)
(* builder (internal/qb), the grant resource data types (keyspace and      *)
(* table), the shared grant operations of the provider (createGrant,       *)
(* readGrant, deleteGrant) and the table grant resource that issues its    *)
(* statements directly (internal/provider/table_grant_resource.go).        *)
(*                                                                         *)
(* Go strings are TLA+ strings; a character is a string of length one.     *)
(***************************************************************************)
EXTENDS Naturals, Sequences, FiniteSets, TLC

VARIABLES
    db,      \* the grants the database holds (the Executor's own state)
    pc,      \* "idle" | "called" | "returned": where the Host's invocation is
    req,     \* the request in flight: operation, resource data, prior state
    resp,    \* the response: Diagnostics and State
    sent,    \* the statements the Executor received during this invocation
    reply,   \* what provider.execute returned during this invocation
    script,  \* the operations the Host still has to invoke, when it follows a script
    log      \* the responses to the operations of the script, oldest first

vars == <<db, pc, req, resp, sent, reply, script, log>>

(***************************************************************************)
(* Bounds of the model.                                                    *)
(***************************************************************************)
MaxGrants == 2
MaxRows == 2

(***************************************************************************)
(* Go's strings package, as far as the provider uses it.                   *)
(***************************************************************************)
UpperLetters == "ABCDEFGHIJKLMNOPQRSTUVWXYZ"
LowerLetters == "abcdefghijklmnopqrstuvwxyz"

Letters == 1..26
LowerSet == {SubSeq(LowerLetters, i, i) : i \in Letters}
UpperSet == {SubSeq(UpperLetters, i, i) : i \in Letters}
LowerRank == [c \in LowerSet |-> CHOOSE i \in Letters : SubSeq(LowerLetters, i, i) = c]
UpperRank == [c \in UpperSet |-> CHOOSE i \in Letters : SubSeq(UpperLetters, i, i) = c]
UpperMap == [c \in LowerSet |-> SubSeq(UpperLetters, LowerRank[c], LowerRank[c])]
LowerMap == [c \in UpperSet |-> SubSeq(LowerLetters, UpperRank[c], UpperRank[c])]

ToUpperChar(c) == IF c \in LowerSet THEN UpperMap[c] ELSE c

ToLowerChar(c) == IF c \in UpperSet THEN LowerMap[c] ELSE c

RECURSIVE strings_ToUpper(_)
strings_ToUpper(s) ==
    IF Len(s) = 0 THEN ""
    ELSE ToUpperChar(SubSeq(s, 1, 1)) \o strings_ToUpper(SubSeq(s, 2, Len(s)))

RECURSIVE strings_ToLower(_)
strings_ToLower(s) ==
    IF Len(s) = 0 THEN ""
    ELSE ToLowerChar(SubSeq(s, 1, 1)) \o strings_ToLower(SubSeq(s, 2, Len(s)))

\* strings.ReplaceAll(s, old, new) for a one-character old.
RECURSIVE strings_ReplaceAll(_, _, _)
strings_ReplaceAll(s, old, new) ==
    IF Len(s) = 0 THEN ""
    ELSE (IF SubSeq(s, 1, 1) = old THEN new ELSE SubSeq(s, 1, 1))
         \o strings_ReplaceAll(SubSeq(s, 2, Len(s)), old, new)

strings_Contains(s, substr) ==
    \E i \in 1..(Len(s) + 1) :
        /\ i + Len(substr) - 1 <= Len(s)
        /\ SubSeq(s, i, i + Len(substr) - 1) = substr

\* The operands fmt.Sprintf found no verb for.
RECURSIVE fmt_Extra(_)
fmt_Extra(a) ==
    IF Len(a) = 1 THEN "string=" \o Head(a)
    ELSE "string=" \o Head(a) \o ", " \o fmt_Extra(Tail(a))

\* fmt.Sprintf for a format whose only verb is %s.
RECURSIVE fmt_Sprintf(_, _)
fmt_Sprintf(format, a) ==
    IF Len(format) = 0
    THEN IF Len(a) = 0 THEN "" ELSE "%!(EXTRA " \o fmt_Extra(a) \o ")"
    ELSE IF Len(format) >= 2 /\ SubSeq(format, 1, 2) = "%s"
    THEN (IF Len(a) = 0 THEN "%!s(MISSING)" ELSE Head(a))
         \o fmt_Sprintf(SubSeq(format, 3, Len(format)),
                        IF Len(a) = 0 THEN a ELSE Tail(a))
    ELSE SubSeq(format, 1, 1) \o fmt_Sprintf(SubSeq(format, 2, Len(format)), a)

(***************************************************************************)
(* internal/qb: the statement builder and the quoting functions.           *)
(***************************************************************************)
NewBuilder == [stmt |-> "", onceMap |-> {}]

Builder_Appendf(b, format, a) ==
    [b EXCEPT !.stmt = @ \o fmt_Sprintf(format, a)]

\* The fragments of a, written one after the other.
RECURSIVE WriteStrings(_)
WriteStrings(a) == IF Len(a) = 0 THEN "" ELSE Head(a) \o WriteStrings(Tail(a))

\* An Append that starts the statement afresh.
Builder_Append_overwrites(b, a) == [b EXCEPT !.stmt = WriteStrings(a)]

Builder_Append(b, a) == [b EXCEPT !.stmt = @ \o WriteStrings(a)]

\* A Once that never records its key.
Builder_Once_forgetsKey(b, key, text, alt) ==
    IF key \in b.onceMap THEN Builder_Append(b, <<alt>>)
    ELSE Builder_Append(b, <<text>>)

\* A Once that joins with the alternative text from its first call on.
Builder_Once_alwaysAlt(b, key, text, alt) ==
    Builder_Append([b EXCEPT !.onceMap = @ \cup {key}], <<alt>>)

Builder_Once(b, key, text, alt) ==
    IF key \in b.onceMap
    THEN Builder_Append(b, <<alt>>)
    ELSE Builder_Append([b EXCEPT !.onceMap = @ \cup {key}], <<text>>)

Builder_String(b) == b.stmt

Bool(b) == IF b THEN "true" ELSE "false"

\* A String that leaves embedded single quotes as they are.
String_unescaped(s) == "'" \o s \o "'"

String(s) == "'" \o strings_ReplaceAll(s, "'", "''") \o "'"

\* A QName that escapes a double quote with a backslash.
QName_backslashed(s) == "\"" \o strings_ReplaceAll(s, "\"", "\\\"") \o "\""

\* A QName that leaves embedded double quotes as they are.
QName_unescaped(s) == "\"" \o s \o "\""

QName(s) == "\"" \o strings_ReplaceAll(s, "\"", "\"\"") \o "\""

qb_ToUpper(c) == strings_ToUpper(c)

(***************************************************************************)
(* types.String of the plugin framework: null, unknown or a known value.   *)
(***************************************************************************)
Null == [null |-> TRUE, unknown |-> FALSE, value |-> ""]
Unknown == [null |-> FALSE, unknown |-> TRUE, value |-> ""]
Str(v) == [null |-> FALSE, unknown |-> FALSE, value |-> v]

IsNull(f) == f.null
IsUnknown(f) == f.unknown

(***************************************************************************)
(* diag.Diagnostics: every diagnostic the provider adds is an error.       *)
(***************************************************************************)
AttributeError(attr, summary, detail) ==
    [attr |-> attr, summary |-> summary, detail |-> detail]

Error(summary, detail) == [attr |-> "", summary |-> summary, detail |-> detail]

HasError(diags) == Len(diags) > 0

(***************************************************************************)
(* The permission vocabularies.                                            *)
(***************************************************************************)
keyspacePermissions ==
    {"CREATE", "ALTER", "DROP", "SELECT", "MODIFY", "AUTHORIZE", "DESCRIBE"}

tablePermissions ==
    {"CREATE", "ALTER", "DROP", "SELECT", "MODIFY", "AUTHORIZE", "DESCRIBE"}

\* The vocabulary of internal/provider/table_grant_resource.go.
permissions ==
    {"CREATE", "ALTER", "DROP", "SELECT", "MODIFY", "AUTHORIZE", "DESCRIBE"}

\* The permissions each schema description lists ("One of: ...").
keyspaceGrantSchemaPermissions ==
    {"ALTER", "AUTHORIZE", "CREATE", "DROP", "MODIFY", "SELECT"}

tableGrantSchemaPermissions ==
    {"ALTER", "AUTHORIZE", "DROP", "MODIFY", "SELECT"}

tableGrantDirectSchemaPermissions ==
    {"ALL", "CREATE", "ALTER", "DROP", "SELECT", "MODIFY", "AUTHORIZE", "DESCRIBE"}

\* Byte-wise order of two strings, as sort.Strings compares them.
CharRank(c) == IF c \in UpperSet THEN UpperRank[c] ELSE 0

RECURSIVE StringLess(_, _)
StringLess(a, b) ==
    IF Len(b) = 0 THEN FALSE
    ELSE IF Len(a) = 0 THEN TRUE
    ELSE IF SubSeq(a, 1, 1) = SubSeq(b, 1, 1)
         THEN StringLess(SubSeq(a, 2, Len(a)), SubSeq(b, 2, Len(b)))
         ELSE CharRank(SubSeq(a, 1, 1)) < CharRank(SubSeq(b, 1, 1))

RECURSIVE sort_Strings(_)
sort_Strings(S) ==
    IF S = {} THEN <<>>
    ELSE LET m == CHOOSE x \in S : \A y \in S \ {x} : StringLess(x, y)
         IN  <<m>> \o sort_Strings(S \ {m})

\* fmt's %s of a []string: the elements between brackets, space separated.
RECURSIVE JoinNames(_)
JoinNames(names) ==
    IF Len(names) = 0 THEN ""
    ELSE IF Len(names) = 1 THEN Head(names)
    ELSE Head(names) \o " " \o JoinNames(Tail(names))

FormatNames(names) == "[" \o JoinNames(names) \o "]"

(***************************************************************************)
(* keyspaceGrantResourceData.                                              *)
(***************************************************************************)
\* A resource fragment that names the keyspace as it was written.
keyspaceGrantResourceData_resource_unquoted(t) ==
    fmt_Sprintf("KEYSPACE %s", <<t.Keyspace.value>>)

keyspaceGrantResourceData_resource(t) ==
    fmt_Sprintf("KEYSPACE %s", <<QName(t.Keyspace.value)>>)

keyspaceGrantResourceData_listResource(t) ==
    fmt_Sprintf("<keyspace %s>", <<strings_ToLower(t.Keyspace.value)>>)

keyspaceGrantResourceData_permission(t) == t.Permission.value

\* A grantee kept in one place for every call, whatever the call's own data.
keyspaceGrantResourceData_grantee_shared(t) == "r1"

keyspaceGrantResourceData_grantee(t) == t.Grantee.value

keyspaceGrantResourceData_validate(t) ==
    (IF IsNull(t.Keyspace) \/ IsUnknown(t.Keyspace) \/ t.Keyspace.value = ""
     THEN <<AttributeError("keyspace", "Keyspace missing",
                           "Keyspace of the table must be specified.")>>
     ELSE <<>>)
    \o
    (IF IsNull(t.Grantee) \/ IsUnknown(t.Grantee) \/ t.Grantee.value = ""
     THEN <<AttributeError("grantee", "Grantee missing",
                           "Grantee must be specified.")>>
     ELSE <<>>)
    \o
    (IF IsNull(t.Permission) \/ IsUnknown(t.Permission) \/ t.Permission.value = ""
     THEN <<AttributeError("permission", "Permission missing",
                           "Permission must be specified.")>>
     ELSE LET perm == strings_ToUpper(t.Permission.value)
              permNames == sort_Strings(keyspacePermissions)
          IN  IF perm \notin keyspacePermissions
              THEN <<AttributeError("permission", "Unsupported permission",
                        fmt_Sprintf("Permission must be one of %s",
                                    <<FormatNames(permNames)>>))>>
              ELSE <<>>)

(***************************************************************************)
(* tableGrantResourceData, in the revision that implements the             *)
(* grantResourceData interface.                                            *)
(***************************************************************************)
tableGrantResourceData_resource(t) ==
    fmt_Sprintf("%s.%s", <<QName(t.Keyspace.value), QName(t.Table.value)>>)

\* A listResource that takes the names as they were written.
tableGrantResourceData_listResource_asWritten(t) ==
    fmt_Sprintf("<table %s.%s>", <<t.Keyspace.value, t.Table.value>>)

tableGrantResourceData_listResource(t) ==
    fmt_Sprintf("<table %s.%s>", <<strings_ToLower(t.Keyspace.value),
                                   strings_ToLower(t.Table.value)>>)

tableGrantResourceData_permission(t) == t.Permission.value

tableGrantResourceData_grantee(t) == t.Grantee.value

\* A validate that returns at its first error.
TableValidate_stopsAtFirstError(t, vocab) ==
    IF IsNull(t.Keyspace) \/ IsUnknown(t.Keyspace) \/ t.Keyspace.value = ""
    THEN <<AttributeError("keyspace", "Keyspace missing",
                          "Keyspace of the table must be specified.")>>
    ELSE IF IsNull(t.Table) \/ IsUnknown(t.Table) \/ t.Table.value = ""
    THEN <<AttributeError("table", "Table missing", "Table name must be specified.")>>
    ELSE IF IsNull(t.Grantee) \/ IsUnknown(t.Grantee) \/ t.Grantee.value = ""
    THEN <<AttributeError("grantee", "Grantee missing", "Grantee must be specified.")>>
    ELSE IF IsNull(t.Permission) \/ IsUnknown(t.Permission) \/ t.Permission.value = ""
    THEN <<AttributeError("permission", "Permission missing",
                          "Permission must be specified.")>>
    ELSE IF strings_ToUpper(t.Permission.value) \notin vocab
    THEN <<AttributeError("permission", "Unsupported permission",
              fmt_Sprintf("Permission must be one of %s",
                          <<FormatNames(sort_Strings(vocab))>>))>>
    ELSE <<>>

\* A validate that looks the permission up as it was written.
TableValidate_caseSensitive(t, vocab) ==
    (IF IsNull(t.Keyspace) \/ IsUnknown(t.Keyspace) \/ t.Keyspace.value = ""
     THEN <<AttributeError("keyspace", "Keyspace missing",
                           "Keyspace of the table must be specified.")>>
     ELSE <<>>)
    \o
    (IF IsNull(t.Table) \/ IsUnknown(t.Table) \/ t.Table.value = ""
     THEN <<AttributeError("table", "Table missing",
                           "Table name must be specified.")>>
     ELSE <<>>)
    \o
    (IF IsNull(t.Grantee) \/ IsUnknown(t.Grantee) \/ t.Grantee.value = ""
     THEN <<AttributeError("grantee", "Grantee missing",
                           "Grantee must be specified.")>>
     ELSE <<>>)
    \o
    (IF IsNull(t.Permission) \/ IsUnknown(t.Permission) \/ t.Permission.value = ""
     THEN <<AttributeError("permission", "Permission missing",
                           "Permission must be specified.")>>
     ELSE IF t.Permission.value \notin vocab
          THEN <<AttributeError("permission", "Unsupported permission",
                    fmt_Sprintf("Permission must be one of %s",
                                <<FormatNames(sort_Strings(vocab))>>))>>
          ELSE <<>>)

\* The four checks of a table grant's validate, over vocabulary vocab.
TableValidate(t, vocab) ==
    (IF IsNull(t.Keyspace) \/ IsUnknown(t.Keyspace) \/ t.Keyspace.value = ""
     THEN <<AttributeError("keyspace", "Keyspace missing",
                           "Keyspace of the table must be specified.")>>
     ELSE <<>>)
    \o
    (IF IsNull(t.Table) \/ IsUnknown(t.Table) \/ t.Table.value = ""
     THEN <<AttributeError("table", "Table missing",
                           "Table name must be specified.")>>
     ELSE <<>>)
    \o
    (IF IsNull(t.Grantee) \/ IsUnknown(t.Grantee) \/ t.Grantee.value = ""
     THEN <<AttributeError("grantee", "Grantee missing",
                           "Grantee must be specified.")>>
     ELSE <<>>)
    \o
    (IF IsNull(t.Permission) \/ IsUnknown(t.Permission) \/ t.Permission.value = ""
     THEN <<AttributeError("permission", "Permission missing",
                           "Permission must be specified.")>>
     ELSE LET perm == strings_ToUpper(t.Permission.value)
              permNames == sort_Strings(vocab)
          IN  IF perm \notin vocab
              THEN <<AttributeError("permission", "Unsupported permission",
                        fmt_Sprintf("Permission must be one of %s",
                                    <<FormatNames(permNames)>>))>>
              ELSE <<>>)

tableGrantResourceData_validate(t) == TableValidate(t, tablePermissions)

(***************************************************************************)
(* tableGrantResourceData of internal/provider/table_grant_resource.go.    *)
(***************************************************************************)
tableGrantDirect_resource(t) ==
    fmt_Sprintf("%s.%s", <<QName(t.Keyspace.value), QName(t.Table.value)>>)

\* expectedResource of Read.
tableGrantDirect_expectedResource(data) ==
    fmt_Sprintf("<table %s.%s>", <<strings_ToLower(data.Keyspace.value),
                                   strings_ToLower(data.Table.value)>>)

tableGrantDirect_validate(t) == TableValidate(t, permissions)

(***************************************************************************)
(* The grantResourceData interface: data.kind is the dynamic type.         *)
(***************************************************************************)
resource(data) ==
    IF data.kind = "keyspace" THEN keyspaceGrantResourceData_resource(data)
    ELSE tableGrantResourceData_resource(data)

listResource(data) ==
    IF data.kind = "keyspace" THEN keyspaceGrantResourceData_listResource(data)
    ELSE tableGrantResourceData_listResource(data)

permission(data) ==
    IF data.kind = "keyspace" THEN keyspaceGrantResourceData_permission(data)
    ELSE tableGrantResourceData_permission(data)

grantee(data) ==
    IF data.kind = "keyspace" THEN keyspaceGrantResourceData_grantee(data)
    ELSE tableGrantResourceData_grantee(data)

validate(data) ==
    IF data.kind = "keyspace" THEN keyspaceGrantResourceData_validate(data)
    ELSE tableGrantResourceData_validate(data)

(***************************************************************************)
(* The Statement Executor: the database behind transport.Conn.Query.  It   *)
(* holds the set db of grants [role, resource, permission], each in the    *)
(* form a permission listing reports it: the resource as <keyspace ks> or  *)
(* <table ks.tbl>, lower-cased, and the permission upper-cased.            *)
(***************************************************************************)
\* The tokens of a statement: words and dots outside quotes, and quoted
\* names, in which a doubled quote stands for one quote.  acc is the token
\* being read, mode "out" (between tokens), "word" or "quoted".
Word(text) == [quoted |-> FALSE, text |-> text]
Quoted(text) == [quoted |-> TRUE, text |-> text]
Unterminated == [quoted |-> FALSE, text |-> "\""]

RECURSIVE Tokenize(_, _, _, _, _)
Tokenize(s, i, mode, acc, out) ==
    IF i > Len(s)
    THEN IF mode = "word" THEN Append(out, Word(acc))
         ELSE IF mode = "quoted" THEN Append(out, Unterminated)
         ELSE out
    ELSE IF mode = "quoted"
    THEN IF SubSeq(s, i, i) # "\""
         THEN Tokenize(s, i + 1, mode, acc \o SubSeq(s, i, i), out)
         ELSE IF i < Len(s) /\ SubSeq(s, i + 1, i + 1) = "\""
         THEN Tokenize(s, i + 2, mode, acc \o "\"", out)
         ELSE Tokenize(s, i + 1, "out", "", Append(out, Quoted(acc)))
    ELSE IF SubSeq(s, i, i) \in {" ", ".", "\""}
    THEN Tokenize(s, i + 1,
                  IF SubSeq(s, i, i) = "\"" THEN "quoted" ELSE "out", "",
                  (IF mode = "word" THEN Append(out, Word(acc)) ELSE out)
                  \o (IF SubSeq(s, i, i) = "." THEN <<Word(".")>> ELSE <<>>))
    ELSE Tokenize(s, i + 1, "word", acc \o SubSeq(s, i, i), out)

\* GRANT p ON obj TO g | REVOKE p ON obj FROM g | LIST p PERMISSION ON obj OF g
\* with obj either KEYSPACE "ks" or "ks"."tbl"; t is the token sequence.
ParseTokens(t) ==
    IF Len(t) < 5 \/ t[1] \notin {Word("GRANT"), Word("REVOKE"), Word("LIST")}
       \/ t[2].quoted
    THEN [ok |-> FALSE]
    ELSE LET o == IF t[1] = Word("LIST") THEN 4 ELSE 3
             prep == IF t[1] = Word("GRANT") THEN Word("TO")
                     ELSE IF t[1] = Word("REVOKE") THEN Word("FROM") ELSE Word("OF")
             shape == (t[1] = Word("LIST") => t[3] = Word("PERMISSION")) /\ t[o] = Word("ON")
         IN  IF shape /\ Len(t) = o + 4 /\ t[o + 1] = Word("KEYSPACE")
                /\ t[o + 2].quoted
                /\ t[o + 3] = prep /\ t[o + 4].quoted
             THEN [ok |-> TRUE, verb |-> t[1].text,
                   grant |-> [role |-> t[o + 4].text,
                              resource |-> "<keyspace " \o strings_ToLower(t[o + 2].text) \o ">",
                              permission |-> strings_ToUpper(t[2].text)]]
             ELSE IF shape /\ Len(t) = o + 5
                /\ t[o + 1].quoted /\ t[o + 2] = Word(".")
                /\ t[o + 3].quoted
                /\ t[o + 4] = prep /\ t[o + 5].quoted
             THEN [ok |-> TRUE, verb |-> t[1].text,
                   grant |-> [role |-> t[o + 5].text,
                              resource |-> "<table " \o strings_ToLower(t[o + 1].text) \o "."
                                           \o strings_ToLower(t[o + 3].text) \o ">",
                              permission |-> strings_ToUpper(t[2].text)]]
             ELSE [ok |-> FALSE]

ParseStatement(s) == ParseTokens(Tokenize(s, 1, "out", "", <<>>))

Text(v) == [text |-> TRUE, value |-> v]
NotText == [text |-> FALSE, value |-> ""]

ListColumns == <<"role", "username", "resource", "permission">>

\* A grant as a row of a result with columns cols.
RowOf(g, cols) ==
    [i \in 1..Len(cols) |->
        IF cols[i] \in {"role", "username"} THEN g.role
        ELSE IF cols[i] = "resource" THEN g.resource
        ELSE g.permission]

NoErr == [isErr |-> FALSE, msg |-> ""]
Err(msg) == [isErr |-> TRUE, msg |-> msg]
EmptyResult == [ColSpec |-> <<>>, Rows |-> <<>>]

\* The database executes the parsed statement st: [err, result, db].
Execute(db0, st) ==
    IF ~st.ok
    THEN [err |-> Err("line 1: no viable alternative at input"),
          result |-> EmptyResult, db |-> db0]
    ELSE IF st.verb = "GRANT"
    THEN [err |-> NoErr, result |-> EmptyResult, db |-> db0 \cup {st.grant}]
    ELSE IF st.verb = "REVOKE"
    THEN [err |-> NoErr, result |-> EmptyResult, db |-> db0 \ {st.grant}]
    ELSE [err |-> NoErr, db |-> db0,
          result |-> [ColSpec |-> ListColumns,
                      Rows |-> IF st.grant \in db0
                               THEN <<RowOf([role |-> Text(st.grant.role),
                                             resource |-> Text(st.grant.resource),
                                             permission |-> Text(st.grant.permission)],
                                            ListColumns)>>
                               ELSE <<>>]]

Database(db0, query) == Execute(db0, ParseStatement(query))

(***************************************************************************)
(* provider.execute.  mode is what happens outside the provider: "dial"    *)
(* (no host accepts the connection), "error" (the query fails), "result"   *)
(* (the query answers with mode.result) or "database" (the database above  *)
(* executes the statement).                                                *)
(***************************************************************************)
initConn(mode) == IF mode.type = "dial" THEN Err(mode.msg) ELSE NoErr

conn_Query(mode, db0, query) ==
    IF mode.type = "error"
    THEN [err |-> Err(mode.msg), result |-> EmptyResult, db |-> db0]
    ELSE IF mode.type = "result"
    THEN [err |-> NoErr, result |-> mode.result, db |-> db0]
    ELSE Database(db0, query)

\* An execute that sends the query once more when it failed.
execute_retriesOnError(mode, db0, query) ==
    LET err == initConn(mode)
    IN  IF err.isErr
        THEN [called |-> TRUE, sent |-> <<>>, err |-> err,
              result |-> EmptyResult, db |-> db0]
        ELSE LET r == conn_Query(mode, db0, query)
             IN  [called |-> TRUE,
                  sent |-> IF r.err.isErr THEN <<query, query>> ELSE <<query>>,
                  err |-> r.err, result |-> r.result, db |-> r.db]

execute(mode, db0, query) ==
    LET err == initConn(mode)
    IN  IF err.isErr
        THEN [called |-> TRUE, sent |-> <<>>, err |-> err,
              result |-> EmptyResult, db |-> db0]
        ELSE LET r == conn_Query(mode, db0, query)
             IN  [called |-> TRUE, sent |-> <<query>>, err |-> r.err,
                  result |-> r.result, db |-> r.db]

NoReply == [called |-> FALSE, sent |-> <<>>, err |-> NoErr,
            result |-> EmptyResult, db |-> {}]

(***************************************************************************)
(* tfsdk.State of a response: no resource, or the resource's data.         *)
(* written records that the handler called Set or RemoveResource.          *)
(***************************************************************************)
NoData == [kind |-> "none"]
NullState == [present |-> FALSE, raw |-> NoData, written |-> FALSE]
\* The state the Host hands over: written tells whether the handler wrote it.
Stored(data) == [present |-> TRUE, raw |-> data, written |-> FALSE]
State_Set(data) == [present |-> TRUE, raw |-> data, written |-> TRUE]
State_RemoveResource == [present |-> FALSE, raw |-> NoData, written |-> TRUE]

RECURSIVE findColumnFrom(_, _, _)
findColumnFrom(name, colSpec, i) ==
    IF i > Len(colSpec)
    THEN [idx |-> 0, err |-> Err("column \"" \o name \o "\" not found in result set")]
    ELSE IF colSpec[i] = name THEN [idx |-> i, err |-> NoErr]
    ELSE findColumnFrom(name, colSpec, i + 1)

\* A findColumn that answers with the first column when the name is missing.
findColumn_firstWhenMissing(name, colSpec) ==
    IF findColumnFrom(name, colSpec, 1).err.isErr
    THEN [idx |-> 1, err |-> NoErr]
    ELSE findColumnFrom(name, colSpec, 1)

findColumn(name, colSpec) == findColumnFrom(name, colSpec, 1)

AsText(cell) ==
    IF cell.text THEN [value |-> cell.value, err |-> NoErr]
    ELSE [value |-> "", err |-> Err("value is not of a text type")]

\* What a handler leaves behind: the response, the statements sent, the
\* database and what execute returned.
Outcome(diags, state, r) ==
    [Diagnostics |-> diags, State |-> state, sent |-> r.sent, db |-> r.db,
     reply |-> [called |-> r.called, err |-> r.err, result |-> r.result]]

NotCalled(db0) == [NoReply EXCEPT !.db = db0]

\* The row loop of Read: "found", "notfound" or "error" on the first cell
\* that is no text.  want is the permission text a row must carry.
RECURSIVE ScanRows(_, _, _, _, _, _, _, _)
ScanRows(rows, i, colRole, colResource, colPermission, who, expectedResource, want) ==
    IF i > Len(rows) THEN [found |-> FALSE, err |-> NoErr]
    ELSE LET role == AsText(rows[i][colRole])
             res  == AsText(rows[i][colResource])
             perm == AsText(rows[i][colPermission])
         IN  IF role.err.isErr THEN [found |-> FALSE, err |-> role.err]
             ELSE IF res.err.isErr THEN [found |-> FALSE, err |-> res.err]
             ELSE IF perm.err.isErr THEN [found |-> FALSE, err |-> perm.err]
             ELSE IF role.value = who /\ res.value = expectedResource
                     /\ perm.value = want
             THEN [found |-> TRUE, err |-> NoErr]
             ELSE ScanRows(rows, i + 1, colRole, colResource, colPermission,
                           who, expectedResource, want)

\* A Read that reports every error of execute.
InterpretListing_reportsEveryError(diags, state0, data, r, stmt, who, expectedResource, want) ==
    IF r.err.isErr
    THEN Outcome(diags \o <<Error("Query error",
                    fmt_Sprintf("Unable to read grant:\n%s\n%s",
                                <<Builder_String(stmt), r.err.msg>>))>>,
                 state0, r)
    ELSE Outcome(diags, State_Set(data), r)

\* A Read that takes every error of execute for a missing object.
InterpretListing_removesOnEveryError(diags, state0, data, r, stmt, who, expectedResource, want) ==
    IF r.err.isErr
    THEN Outcome(diags, State_RemoveResource, r)
    ELSE Outcome(diags, State_Set(data), r)

\* Read after execute returned: the error paths, the columns, the rows.
InterpretListing(diags, state0, data, r, stmt, who, expectedResource, want) ==
    IF r.err.isErr
    THEN IF strings_Contains(r.err.msg, "doesn't exist")
         THEN Outcome(diags, State_RemoveResource, r)
         ELSE Outcome(diags \o <<Error("Query error",
                         fmt_Sprintf("Unable to read grant:\n%s\n%s",
                                     <<Builder_String(stmt), r.err.msg>>))>>,
                      state0, r)
    ELSE LET colRole == findColumn("role", r.result.ColSpec)
             colResource == findColumn("resource", r.result.ColSpec)
             colPermission == findColumn("permission", r.result.ColSpec)
         IN  IF colRole.err.isErr
             THEN Outcome(diags \o <<Error("Query error", colRole.err.msg)>>, state0, r)
             ELSE IF colResource.err.isErr
             THEN Outcome(diags \o <<Error("Query error", colResource.err.msg)>>, state0, r)
             ELSE IF colPermission.err.isErr
             THEN Outcome(diags \o <<Error("Query error", colPermission.err.msg)>>, state0, r)
             ELSE LET scan == ScanRows(r.result.Rows, 1, colRole.idx, colResource.idx,
                                       colPermission.idx, who, expectedResource, want)
                  IN  IF scan.err.isErr
                      THEN Outcome(diags \o <<Error("Query error", scan.err.msg)>>,
                                   state0, r)
                      ELSE IF ~scan.found
                      THEN Outcome(diags, State_RemoveResource, r)
                      ELSE Outcome(diags, State_Set(data), r)

(***************************************************************************)
(* provider.createGrant, readGrant, deleteGrant.  data is the resource     *)
(* data decoded from the request, state0 the response's State on entry.    *)
(***************************************************************************)
\* A Create that takes every answer of execute for success.
createGrant_ignoresError(data, state0, mode, db0) ==
    LET diags == validate(data)
    IN  IF HasError(diags)
        THEN Outcome(diags, state0, NotCalled(db0))
        ELSE LET perm == qb_ToUpper(permission(data))
                 stmt == Builder_Appendf(NewBuilder, "GRANT %s ON %s TO %s",
                             <<perm, resource(data), QName(grantee(data))>>)
             IN  Outcome(diags, State_Set(data), execute(mode, db0, Builder_String(stmt)))

createGrant(data, state0, mode, db0) ==
    LET diags == validate(data)
    IN  IF HasError(diags)
        THEN Outcome(diags, state0, NotCalled(db0))
        ELSE LET perm == qb_ToUpper(permission(data))
                 stmt == Builder_Appendf(NewBuilder, "GRANT %s ON %s TO %s",
                             <<perm, resource(data), QName(grantee(data))>>)
                 r == execute(mode, db0, Builder_String(stmt))
             IN  IF r.err.isErr
                 THEN Outcome(diags \o <<Error("error granting",
                                 fmt_Sprintf("%s\n\n%s",
                                             <<Builder_String(stmt), r.err.msg>>))>>,
                              state0, r)
                 ELSE Outcome(diags, State_Set(data), r)

\* A Read that grants what it was asked to look for.
readGrant_grants(data, state0, mode, db0) == createGrant(data, state0, mode, db0)

readGrant(data, state0, mode, db0) ==
    LET diags == validate(data)
    IN  IF HasError(diags)
        THEN Outcome(diags, state0, NotCalled(db0))
        ELSE LET upperPermission == qb_ToUpper(permission(data))
                 stmt == Builder_Appendf(NewBuilder, "LIST %s PERMISSION ON %s OF %s",
                             <<upperPermission, resource(data), QName(grantee(data))>>)
                 r == execute(mode, db0, Builder_String(stmt))
             IN  InterpretListing(diags, state0, data, r, stmt, grantee(data),
                                  listResource(data), upperPermission)

deleteGrant(data, state0, mode, db0) ==
    LET diags == validate(data)
    IN  IF HasError(diags)
        THEN Outcome(diags, state0, NotCalled(db0))
        ELSE LET perm == qb_ToUpper(permission(data))
                 stmt == Builder_Appendf(NewBuilder, "REVOKE %s ON %s FROM %s",
                             <<perm, resource(data), QName(grantee(data))>>)
                 r == execute(mode, db0, Builder_String(stmt))
             IN  IF r.err.isErr
                 THEN Outcome(diags \o <<Error("Error revoking",
                                 fmt_Sprintf("%s\n\n%s",
                                             <<Builder_String(stmt), r.err.msg>>))>>,
                              state0, r)
                 ELSE Outcome(diags, state0, r)

\* An Update that grants the planned permission.
grantUpdate_recreates(data, state0, mode, db0) == createGrant(data, state0, mode, db0)

\* Update of every grant resource.
grantUpdate(data, state0, mode, db0) ==
    Outcome(<<Error("Update not supported",
                    "Grant resource does not support update, only recreate")>>,
            state0, NotCalled(db0))

(***************************************************************************)
(* tableGrantResource of internal/provider/table_grant_resource.go, which  *)
(* builds and sends its statements itself.                                 *)
(***************************************************************************)
tableGrantDirect_Create(data, state0, mode, db0) ==
    LET diags == tableGrantDirect_validate(data)
    IN  IF HasError(diags)
        THEN Outcome(diags, state0, NotCalled(db0))
        ELSE LET perm == strings_ToUpper(data.Permission.value)
                 stmt == Builder_Appendf(NewBuilder, "GRANT %s ON %s TO %s",
                             <<perm, tableGrantDirect_resource(data),
                               QName(data.Grantee.value)>>)
                 r == execute(mode, db0, Builder_String(stmt))
             IN  IF r.err.isErr
                 THEN Outcome(diags \o <<Error("error granting",
                                 fmt_Sprintf("%s\n\n%s",
                                             <<Builder_String(stmt), r.err.msg>>))>>,
                              state0, r)
                 ELSE Outcome(diags, State_Set(data), r)

tableGrantDirect_Read(data, state0, mode, db0) ==
    LET diags == tableGrantDirect_validate(data)
    IN  IF HasError(diags)
        THEN Outcome(diags, state0, NotCalled(db0))
        ELSE LET upperPermission == strings_ToUpper(data.Permission.value)
                 stmt == Builder_Appendf(NewBuilder, "LIST %s PERMISSION ON %s OF %s",
                             <<upperPermission, tableGrantDirect_resource(data),
                               QName(data.Grantee.value)>>)
                 r == execute(mode, db0, Builder_String(stmt))
                 expectedResource == tableGrantDirect_expectedResource(data)
             IN  InterpretListing(diags, state0, data, r, stmt, data.Grantee.value,
                                  expectedResource, data.Permission.value)

tableGrantDirect_Delete(data, state0, mode, db0) ==
    LET perm == strings_ToUpper(data.Permission.value)
    IN  IF perm \notin permissions
        THEN Outcome(<<AttributeError("permission", "Unsupported value",
                          "Permission is not one of the supported values.")>>,
                     state0, NotCalled(db0))
        ELSE LET stmt == Builder_Appendf(NewBuilder, "REVOKE %s ON %s FROM %s",
                             <<perm, tableGrantDirect_resource(data),
                               QName(data.Grantee.value)>>)
                 r == execute(mode, db0, Builder_String(stmt))
             IN  IF r.err.isErr
                 THEN Outcome(<<Error("Error revoking",
                                 fmt_Sprintf("%s\n\n%s",
                                             <<Builder_String(stmt), r.err.msg>>))>>,
                              state0, r)
                 ELSE Outcome(<<>>, state0, r)

(***************************************************************************)
(* The Host's requests.  A Create carries the configuration, a Read or a   *)
(* Delete the prior state (after an import every attribute but the id is   *)
(* null), an Update the plan and the prior state.                          *)
(***************************************************************************)
KeyspaceIn == {Null, Str("ks"), Str("KS")}
TableIn == {Str(""), Str("t")}
GranteeIn == {Unknown, Str("r1"), Str("r2")}
PermissionIn == {Null, Str("select"), Str("SELECT"), Str("FLY")}

Kinds == {"keyspace", "table", "tableDirect"}
Ops == {"Create", "Read", "Update", "Delete"}

GrantData(kind) ==
    IF kind = "keyspace"
    THEN {[kind |-> kind, Keyspace |-> k, Grantee |-> g, Permission |-> p] :
            k \in KeyspaceIn, g \in GranteeIn, p \in PermissionIn}
    ELSE {[kind |-> kind, Keyspace |-> k, Table |-> t, Grantee |-> g,
           Permission |-> p] :
            k \in KeyspaceIn, t \in TableIn, g \in GranteeIn, p \in PermissionIn}

\* The prior states an Update is tried on.
UpdatePrior(kind) ==
    {Stored(d) : d \in {x \in GrantData(kind) :
        x.Keyspace = Str("ks") /\ x.Grantee = Str("r1") /\ x.Permission = Str("SELECT")}}

\* The response's State when the handler is entered.
EntryState(op, data, prior) ==
    IF op = "Create" THEN NullState
    ELSE IF op = "Update" THEN prior
    ELSE Stored(data)

(***************************************************************************)
(* What can happen outside the provider when it calls execute.             *)
(***************************************************************************)
DatabaseMode == [type |-> "database"]

ErrorModes ==
    {[type |-> "dial", msg |-> "dial tcp: connection refused"],
     [type |-> "error", msg |-> "Role r1 doesn't exist."],
     [type |-> "error", msg |-> "Operation timed out"]}

ListedGrants ==
    {[role |-> Text("r1"), resource |-> Text("<table ks.t>"), permission |-> Text("SELECT")],
     [role |-> Text("r2"), resource |-> Text("<table ks.t>"), permission |-> Text("SELECT")],
     [role |-> Text("r1"), resource |-> Text("<keyspace ks>"), permission |-> Text("SELECT")],
     [role |-> Text("r1"), resource |-> Text("<table ks.t>"), permission |-> NotText]}

SeqsUpTo(S, n) == UNION {[1..k -> S] : k \in 0..n}

FullColumns == {ListColumns, <<"permission", "resource", "role">>}
PartColumns == {<<"username", "resource", "permission">>,
                <<"role", "permission">>, <<"role", "resource">>}

Listings ==
    {[ColSpec |-> cols, Rows |-> [i \in 1..Len(gs) |-> RowOf(gs[i], cols)]] :
        cols \in FullColumns, gs \in SeqsUpTo(ListedGrants, MaxRows)}
    \cup
    {[ColSpec |-> cols, Rows |-> [i \in 1..Len(gs) |-> RowOf(gs[i], cols)]] :
        cols \in PartColumns, gs \in SeqsUpTo(ListedGrants, 1)}

ResultModes == {[type |-> "result", result |-> r] : r \in Listings}

Modes(op) ==
    IF op = "Read" THEN {DatabaseMode} \cup ErrorModes \cup ResultModes
    ELSE {DatabaseMode} \cup ErrorModes

(***************************************************************************)
(* The state machine: the Host invokes an operation, the provider handles  *)
(* it, the Host takes the response.                                        *)
(***************************************************************************)
NoRequest == [op |-> "none", data |-> NoData, prior |-> NullState]
NoResponse == [Diagnostics |-> <<>>, State |-> NullState]
ReplyOf(r) == [called |-> r.called, err |-> r.err, result |-> r.result]

Init ==
    /\ db = {}
    /\ pc = "idle"
    /\ req = NoRequest
    /\ resp = NoResponse
    /\ sent = <<>>
    /\ reply = ReplyOf(NoReply)
    /\ script = <<>>
    /\ log = <<>>

Invoke ==
    /\ pc = "idle"
    /\ \E op \in Ops, kind \in Kinds :
         \E data \in GrantData(kind) :
           \E prior \in (IF op = "Update" THEN UpdatePrior(kind)
                         ELSE IF op = "Create" THEN {NullState}
                         ELSE {Stored(data)}) :
             /\ req' = [op |-> op, data |-> data, prior |-> prior]
             /\ resp' = [Diagnostics |-> <<>>, State |-> EntryState(op, data, prior)]
    /\ pc' = "called"
    /\ UNCHANGED <<db, sent, reply, script, log>>

\* The handler returns: its outcome becomes the response.
Return(out) ==
    /\ Cardinality(out.db) <= MaxGrants
    /\ resp' = [Diagnostics |-> out.Diagnostics, State |-> out.State]
    /\ sent' = out.sent
    /\ reply' = out.reply
    /\ db' = out.db
    /\ pc' = "returned"
    /\ UNCHANGED <<req, script, log>>

Called(kind, op) == pc = "called" /\ req.data.kind = kind /\ req.op = op

keyspaceGrantResource_Create ==
    /\ Called("keyspace", "Create")
    /\ \E mode \in Modes("Create") :
         \E out \in {createGrant(req.data, resp.State, mode, db)} : Return(out)

keyspaceGrantResource_Read ==
    /\ Called("keyspace", "Read")
    /\ \E mode \in Modes("Read") :
         \E out \in {readGrant(req.data, resp.State, mode, db)} : Return(out)

keyspaceGrantResource_Update ==
    /\ Called("keyspace", "Update")
    /\ \E out \in {grantUpdate(req.data, resp.State, DatabaseMode, db)} : Return(out)

keyspaceGrantResource_Delete ==
    /\ Called("keyspace", "Delete")
    /\ \E mode \in Modes("Delete") :
         \E out \in {deleteGrant(req.data, resp.State, mode, db)} : Return(out)

tableGrantResource_Create ==
    /\ Called("table", "Create")
    /\ \E mode \in Modes("Create") :
         \E out \in {createGrant(req.data, resp.State, mode, db)} : Return(out)

tableGrantResource_Read ==
    /\ Called("table", "Read")
    /\ \E mode \in Modes("Read") :
         \E out \in {readGrant(req.data, resp.State, mode, db)} : Return(out)

tableGrantResource_Update ==
    /\ Called("table", "Update")
    /\ \E out \in {grantUpdate(req.data, resp.State, DatabaseMode, db)} : Return(out)

tableGrantResource_Delete ==
    /\ Called("table", "Delete")
    /\ \E mode \in Modes("Delete") :
         \E out \in {deleteGrant(req.data, resp.State, mode, db)} : Return(out)

tableGrantDirectResource_Create ==
    /\ Called("tableDirect", "Create")
    /\ \E mode \in Modes("Create") :
         \E out \in {tableGrantDirect_Create(req.data, resp.State, mode, db)} : Return(out)

tableGrantDirectResource_Read ==
    /\ Called("tableDirect", "Read")
    /\ \E mode \in Modes("Read") :
         \E out \in {tableGrantDirect_Read(req.data, resp.State, mode, db)} : Return(out)

tableGrantDirectResource_Update ==
    /\ Called("tableDirect", "Update")
    /\ \E out \in {grantUpdate(req.data, resp.State, DatabaseMode, db)} : Return(out)

tableGrantDirectResource_Delete ==
    /\ Called("tableDirect", "Delete")
    /\ \E mode \in Modes("Delete") :
         \E out \in {tableGrantDirect_Delete(req.data, resp.State, mode, db)} : Return(out)

\* The Host takes the response; the next invocation starts afresh.
Complete ==
    /\ pc = "returned"
    /\ pc' = "idle"
    /\ req' = NoRequest
    /\ resp' = NoResponse
    /\ sent' = <<>>
    /\ reply' = ReplyOf(NoReply)
    /\ UNCHANGED <<db, script, log>>

Next ==
    \/ Invoke
    \/ keyspaceGrantResource_Create
    \/ keyspaceGrantResource_Read
    \/ keyspaceGrantResource_Update
    \/ keyspaceGrantResource_Delete
    \/ tableGrantResource_Create
    \/ tableGrantResource_Read
    \/ tableGrantResource_Update
    \/ tableGrantResource_Delete
    \/ tableGrantDirectResource_Create
    \/ tableGrantDirectResource_Read
    \/ tableGrantDirectResource_Update
    \/ tableGrantDirectResource_Delete
    \/ Complete

Spec == Init /\ [][Next]_vars

(***************************************************************************)
(* validate alone, on every combination of null, unknown, empty and known  *)
(* attribute values.                                                       *)
(***************************************************************************)
Validation(data) ==
    IF data.kind = "keyspace" THEN keyspaceGrantResourceData_validate(data)
    ELSE IF data.kind = "table" THEN tableGrantResourceData_validate(data)
    ELSE tableGrantDirect_validate(data)

NameIn(name) == {Null, Unknown, Str(""), Str(name)}

PermissionTexts ==
    {"", "select", "SELECT", "SeLeCt", "FLY", "fly", "DESCRIBE", "describe",
     "CREATE", "create", "ALL", "all", "alter", "Drop", "MODIFY", "authorize"}

ValidateData(kind) ==
    LET perms == {Null, Unknown} \cup {Str(p) : p \in PermissionTexts}
    IN  IF kind = "keyspace"
        THEN {[kind |-> kind, Keyspace |-> k, Grantee |-> g, Permission |-> p] :
                k \in NameIn("ks"), g \in NameIn("r1"), p \in perms}
        ELSE {[kind |-> kind, Keyspace |-> k, Table |-> t, Grantee |-> g,
               Permission |-> p] :
                k \in NameIn("ks"), t \in NameIn("t"), g \in NameIn("r1"), p \in perms}

InitValidate ==
    /\ db = {}
    /\ pc = "called"
    /\ \E kind \in Kinds : \E data \in ValidateData(kind) :
         req = [op |-> "Validate", data |-> data, prior |-> NullState]
    /\ resp = NoResponse
    /\ sent = <<>>
    /\ reply = ReplyOf(NoReply)
    /\ script = <<>>
    /\ log = <<>>

Validate ==
    /\ pc = "called"
    /\ req.op = "Validate"
    /\ resp' = [Diagnostics |-> Validation(req.data), State |-> NullState]
    /\ pc' = "returned"
    /\ UNCHANGED <<db, req, sent, reply, script, log>>

NextValidate == Validate

SpecValidate == InitValidate /\ [][NextValidate]_vars

(***************************************************************************)
(* One grant through its life: the Host invokes Create, Read, Delete and   *)
(* Read for the same resource data, and the database executes every        *)
(* statement.                                                              *)
(***************************************************************************)
Handle(op, data, state0, mode, db0) ==
    IF op = "Update" THEN grantUpdate(data, state0, mode, db0)
    ELSE IF data.kind = "tableDirect"
    THEN IF op = "Create" THEN tableGrantDirect_Create(data, state0, mode, db0)
         ELSE IF op = "Read" THEN tableGrantDirect_Read(data, state0, mode, db0)
         ELSE tableGrantDirect_Delete(data, state0, mode, db0)
    ELSE IF op = "Create" THEN createGrant(data, state0, mode, db0)
         ELSE IF op = "Read" THEN readGrant(data, state0, mode, db0)
         ELSE deleteGrant(data, state0, mode, db0)

\* The grants the requests of GrantData can put into the database.
GrantUniverse ==
    {[role |-> r, resource |-> o, permission |-> "SELECT"] :
        r \in {"r1", "r2"}, o \in {"<keyspace ks>", "<table ks.t>"}}

Lifecycle == <<"Create", "Read", "Delete", "Read">>

InitLifecycle ==
    /\ db \in {g \in SUBSET GrantUniverse : Cardinality(g) < MaxGrants}
    /\ pc = "idle"
    /\ \E kind \in Kinds :
         \E data \in {d \in GrantData(kind) : ~HasError(Validation(d))} :
            req = [op |-> "none", data |-> data, prior |-> NullState]
    /\ resp = NoResponse
    /\ sent = <<>>
    /\ reply = ReplyOf(NoReply)
    /\ script = Lifecycle
    /\ log = <<>>

LifecycleInvoke ==
    /\ pc = "idle"
    /\ script # <<>>
    /\ req' = [req EXCEPT !.op = Head(script),
                          !.prior = EntryState(Head(script), req.data, NullState)]
    /\ resp' = [Diagnostics |-> <<>>,
                State |-> EntryState(Head(script), req.data, NullState)]
    /\ script' = Tail(script)
    /\ pc' = "called"
    /\ UNCHANGED <<db, sent, reply, log>>

LifecycleHandle ==
    /\ pc = "called"
    /\ \E out \in {Handle(req.op, req.data, resp.State, DatabaseMode, db)} : Return(out)

LifecycleComplete ==
    /\ pc = "returned"
    /\ log' = Append(log, [op |-> req.op, resp |-> resp, sent |-> sent])
    /\ pc' = "idle"
    /\ resp' = NoResponse
    /\ sent' = <<>>
    /\ reply' = ReplyOf(NoReply)
    /\ UNCHANGED <<db, req, script>>

NextLifecycle == LifecycleInvoke \/ LifecycleHandle \/ LifecycleComplete

SpecLifecycle == InitLifecycle /\ [][NextLifecycle]_vars

(***************************************************************************)
(* The statements of Create, Read and Delete for names and permissions     *)
(* that hold double quotes, blanks and statement keywords.                 *)
(***************************************************************************)
StatementNames(plain) == {Str(plain), Str("k\"s"), Str("r\" TO \"x"), Str("\"")}

StatementPermissions ==
    {Str("select"), Str("ALTER"), Str("FLY"), Str("SELECT ON \"ks\".\"t\" TO \"x\" --")}

StatementData(kind) ==
    IF kind = "keyspace"
    THEN {[kind |-> kind, Keyspace |-> k, Grantee |-> g, Permission |-> p] :
            k \in StatementNames("ks") \cup {Null}, g \in StatementNames("r1"),
            p \in StatementPermissions}
    ELSE {[kind |-> kind, Keyspace |-> k, Table |-> t, Grantee |-> g,
           Permission |-> p] :
            k \in {Str("ks"), Str("k\"s"), Null}, t \in {Str("t"), Str("\"")},
            g \in StatementNames("r1"), p \in StatementPermissions}

InitStatements ==
    /\ db = {}
    /\ pc = "called"
    /\ \E op \in {"Create", "Read", "Delete"}, kind \in Kinds :
         \E data \in StatementData(kind) :
            /\ req = [op |-> op, data |-> data, prior |-> EntryState(op, data, NullState)]
            /\ resp = [Diagnostics |-> <<>>, State |-> EntryState(op, data, NullState)]
    /\ sent = <<>>
    /\ reply = ReplyOf(NoReply)
    /\ script = <<>>
    /\ log = <<>>

StatementCreate ==
    /\ pc = "called" /\ req.op = "Create"
    /\ \E out \in {Handle("Create", req.data, resp.State, DatabaseMode, db)} : Return(out)

StatementRead ==
    /\ pc = "called" /\ req.op = "Read"
    /\ \E out \in {Handle("Read", req.data, resp.State, DatabaseMode, db)} : Return(out)

StatementDelete ==
    /\ pc = "called" /\ req.op = "Delete"
    /\ \E out \in {Handle("Delete", req.data, resp.State, DatabaseMode, db)} : Return(out)

NextStatements == StatementCreate \/ StatementRead \/ StatementDelete

SpecStatements == InitStatements /\ [][NextStatements]_vars

(***************************************************************************)
(* qb.QName and qb.String on every text of at most MaxLen characters over  *)
(* a letter, the two quotes and the blank, and on the texts of qb's tests. *)
(***************************************************************************)
MaxLen == 3

QuoteAlphabet == {"a", "\"", "'", " "}

RECURSIVE TextsUpTo(_)
TextsUpTo(n) ==
    IF n = 0 THEN {""}
    ELSE TextsUpTo(n - 1) \cup {t \o c : t \in TextsUpTo(n - 1), c \in QuoteAlphabet}

QuoteInputs == TextsUpTo(MaxLen) \cup {"the_\"cool\"_identifier", "Joe's string"}

InitQuote ==
    /\ db = {}
    /\ pc = "called"
    /\ \E f \in {"QName", "String"}, s \in QuoteInputs :
          req = [op |-> f, data |-> [kind |-> "text", s |-> s], prior |-> NullState]
    /\ resp = NoResponse
    /\ sent = <<>>
    /\ reply = ReplyOf(NoReply)
    /\ script = <<>>
    /\ log = <<>>

qb_QName ==
    /\ pc = "called" /\ req.op = "QName"
    /\ resp' = [cql |-> QName(req.data.s)]
    /\ pc' = "returned"
    /\ UNCHANGED <<db, req, sent, reply, script, log>>

qb_String ==
    /\ pc = "called" /\ req.op = "String"
    /\ resp' = [cql |-> String(req.data.s)]
    /\ pc' = "returned"
    /\ UNCHANGED <<db, req, sent, reply, script, log>>

NextQuote == qb_QName \/ qb_String

SpecQuote == InitQuote /\ [][NextQuote]_vars

(***************************************************************************)
(* Two Builders under any sequence of at most MaxCalls calls of Append,    *)
(* Appendf and Once.  resp.builders holds the two Builders, log the calls. *)
(***************************************************************************)
MaxCalls == 3

BuilderIds == {1, 2}
OnceKeys == {"k1", "k2", "k3"}
AppendArgs == {<<"x">>, <<"x", " y">>}
AppendfArgs == {[format |-> "a%sb", a |-> <<"%s">>],
                [format |-> "%s.%s", a |-> <<"p", "q">>]}

InitBuilder ==
    /\ db = {}
    /\ pc = "idle"
    /\ req = NoRequest
    /\ resp = [builders |-> <<NewBuilder, NewBuilder>>]
    /\ sent = <<>>
    /\ reply = ReplyOf(NoReply)
    /\ script = <<>>
    /\ log = <<>>

BuilderCall(i, entry, b) ==
    /\ resp' = [resp EXCEPT !.builders[i] = b]
    /\ log' = Append(log, entry)
    /\ UNCHANGED <<db, pc, req, sent, reply, script>>

CallAppend ==
    /\ Len(log) < MaxCalls
    /\ \E i \in BuilderIds, a \in AppendArgs :
        BuilderCall(i, [b |-> i, call |-> "Append", key |-> "", format |-> "", a |-> a],
                    Builder_Append(resp.builders[i], a))

CallAppendf ==
    /\ Len(log) < MaxCalls
    /\ \E i \in BuilderIds, c \in AppendfArgs :
        BuilderCall(i, [b |-> i, call |-> "Appendf", key |-> "", format |-> c.format,
                        a |-> c.a],
                    Builder_Appendf(resp.builders[i], c.format, c.a))

CallOnce ==
    /\ Len(log) < MaxCalls
    /\ \E i \in BuilderIds, key \in OnceKeys :
        BuilderCall(i, [b |-> i, call |-> "Once", key |-> key, format |-> "",
                        a |-> <<"W", "A">>],
                    Builder_Once(resp.builders[i], key, "W", "A"))

NextBuilder == CallAppend \/ CallAppendf \/ CallOnce

SpecBuilder == InitBuilder /\ [][NextBuilder]_vars

(***************************************************************************)
(* The listing identity of a grant's resource, for names in several letter *)
(* cases.                                                                  *)
(***************************************************************************)
ListingKeyspaces == {"ks", "KS", "Ks", "kS", "k_1", "other"}
ListingTables == {"tbl", "Tbl", "TBL", "tBL", "t_2"}

ListingData(kind) ==
    IF kind = "keyspace"
    THEN {[kind |-> kind, Keyspace |-> Str(k), Grantee |-> Str("r1"),
           Permission |-> Str("SELECT")] : k \in ListingKeyspaces}
    ELSE {[kind |-> kind, Keyspace |-> Str(k), Table |-> Str(t), Grantee |-> Str("r1"),
           Permission |-> Str("SELECT")] : k \in ListingKeyspaces, t \in ListingTables}

ListingIdentityOf(data) ==
    IF data.kind = "tableDirect" THEN tableGrantDirect_expectedResource(data)
    ELSE listResource(data)

InitListing ==
    /\ db = {}
    /\ pc = "called"
    /\ \E kind \in Kinds : \E data \in ListingData(kind) :
          req = [op |-> "listResource", data |-> data, prior |-> NullState]
    /\ resp = NoResponse
    /\ sent = <<>>
    /\ reply = ReplyOf(NoReply)
    /\ script = <<>>
    /\ log = <<>>

ListingReturn(identity) ==
    /\ resp' = [identity |-> identity]
    /\ pc' = "returned"
    /\ UNCHANGED <<db, req, sent, reply, script, log>>

keyspaceGrant_listResource ==
    /\ Called("keyspace", "listResource")
    /\ ListingReturn(keyspaceGrantResourceData_listResource(req.data))

tableGrant_listResource ==
    /\ Called("table", "listResource")
    /\ ListingReturn(tableGrantResourceData_listResource(req.data))

tableGrantDirect_listResource ==
    /\ Called("tableDirect", "listResource")
    /\ ListingReturn(tableGrantDirect_expectedResource(req.data))

NextListing ==
    keyspaceGrant_listResource \/ tableGrant_listResource \/ tableGrantDirect_listResource

SpecListing == InitListing /\ [][NextListing]_vars

(***************************************************************************)
(* The properties.  What a property expects is written out here from the   *)
(* specification's words, not taken from the provider's operators.         *)
(***************************************************************************)
ClaimVocabulary ==
    {"CREATE", "ALTER", "DROP", "SELECT", "MODIFY", "AUTHORIZE", "DESCRIBE"}

FieldMissing(f) == f.null \/ f.unknown \/ f.value = ""

IsTable(data) == data.kind \in {"table", "tableDirect"}

\* A request that validation must reject.
ClaimInvalid(data) ==
    \/ FieldMissing(data.Keyspace)
    \/ IsTable(data) /\ FieldMissing(data.Table)
    \/ FieldMissing(data.Grantee)
    \/ FieldMissing(data.Permission)
    \/ strings_ToUpper(data.Permission.value) \notin ClaimVocabulary

ClaimContains(s, sub) ==
    \E i \in 1..Len(s) : i + Len(sub) - 1 <= Len(s) /\ SubSeq(s, i, i + Len(sub) - 1) = sub

\* The listing identity and the statement fragments of a request whose
\* names hold no double quote.
ClaimQuote(name) == "\"" \o name \o "\""

ClaimObject(data) ==
    IF IsTable(data)
    THEN ClaimQuote(data.Keyspace.value) \o "." \o ClaimQuote(data.Table.value)
    ELSE "KEYSPACE " \o ClaimQuote(data.Keyspace.value)

ClaimListingIdentity(data) ==
    IF IsTable(data)
    THEN "<table " \o strings_ToLower(data.Keyspace.value) \o "."
         \o strings_ToLower(data.Table.value) \o ">"
    ELSE "<keyspace " \o strings_ToLower(data.Keyspace.value) \o ">"

Returned(op) == pc = "returned" /\ req.op = op

\* Read's two verdicts, and an untouched state.
ReportsFound ==
    ~HasError(resp.Diagnostics) /\ resp.State.present /\ resp.State.written
ReportsNotFound ==
    ~HasError(resp.Diagnostics) /\ ~resp.State.present /\ resp.State.written
StateUntouched == resp.State = EntryState(req.op, req.data, req.prior)

\* C1: against a database that executes every statement, Create, Read, Delete,
\* Read for one valid triple is accepted (no error diagnostic at any step), the
\* first Read keeps the state (Found) and the last Read removes it (NotFound),
\* for the keyspace and for the table grant.
C1_Lifecycle ==
    (pc = "idle" /\ script = <<>> /\ Len(log) = 4) =>
        /\ \A i \in 1..4 : log[i].op = Lifecycle[i] /\ ~HasError(log[i].resp.Diagnostics)
        /\ log[2].resp.State.present /\ log[2].resp.State.written
        /\ ~log[4].resp.State.present /\ log[4].resp.State.written

\* C2: after a successful listing with the role, resource and permission
\* columns present (every cell a text), Read reports Found iff some row, at any
\* position, has role = grantee, resource = the listing identity and
\* permission = the upper-cased requested permission.
ListingColumn(name) == CHOOSE k \in 1..Len(reply.result.ColSpec) : reply.result.ColSpec[k] = name

ListingIsComplete ==
    /\ \A name \in {"role", "resource", "permission"} :
          \E k \in 1..Len(reply.result.ColSpec) : reply.result.ColSpec[k] = name
    /\ \A i \in 1..Len(reply.result.Rows) :
          \A k \in 1..Len(reply.result.Rows[i]) : reply.result.Rows[i][k].text

RowMatches(row, data) ==
    /\ row[ListingColumn("role")].value = data.Grantee.value
    /\ row[ListingColumn("resource")].value = ClaimListingIdentity(data)
    /\ row[ListingColumn("permission")].value = strings_ToUpper(data.Permission.value)

C2_ReadFoundIffRowMatches ==
    (Returned("Read") /\ reply.called /\ ~reply.err.isErr /\ ListingIsComplete) =>
        (ReportsFound <=>
            \E i \in 1..Len(reply.result.Rows) : RowMatches(reply.result.Rows[i], req.data))

\* C3: in Create, Read and Delete of both variants, a request that validation
\* must reject (a required field null, unknown or empty, or a permission
\* outside the vocabulary) sends no statement and leaves the state unchanged.
C3_InvalidNeverExecutes ==
    (pc = "returned" /\ req.op \in {"Create", "Read", "Delete"} /\ ClaimInvalid(req.data)) =>
        (sent = <<>> /\ ~reply.called /\ StateUntouched)

\* C4: validation collects: exactly one error per missing required field
\* (keyspace, table for a table grant, grantee, permission), exactly one
\* unsupported-permission error iff the permission is present and outside the
\* vocabulary, and nothing else.
CountOf(diags, attr, summary) ==
    Cardinality({i \in 1..Len(diags) : diags[i].attr = attr /\ diags[i].summary = summary})

Expected(cond) == IF cond THEN 1 ELSE 0

C4_ValidationCollectsAll ==
    Returned("Validate") =>
        LET d == req.data
            diags == resp.Diagnostics
            unsupported == ~FieldMissing(d.Permission)
                           /\ strings_ToUpper(d.Permission.value) \notin ClaimVocabulary
            table == IsTable(d) /\ FieldMissing(d.Table)
        IN  /\ CountOf(diags, "keyspace", "Keyspace missing") = Expected(FieldMissing(d.Keyspace))
            /\ CountOf(diags, "table", "Table missing") = Expected(table)
            /\ CountOf(diags, "grantee", "Grantee missing") = Expected(FieldMissing(d.Grantee))
            /\ CountOf(diags, "permission", "Permission missing")
                  = Expected(FieldMissing(d.Permission))
            /\ CountOf(diags, "permission", "Unsupported permission") = Expected(unsupported)
            /\ Len(diags) = Expected(FieldMissing(d.Keyspace)) + Expected(table)
                            + Expected(FieldMissing(d.Grantee))
                            + Expected(FieldMissing(d.Permission)) + Expected(unsupported)

C4_Witness ==
    /\ Returned("Validate")
    /\ req.data.kind = "table"
    /\ req.data.Keyspace = Null /\ req.data.Table = Null
    /\ req.data.Grantee = Null /\ req.data.Permission = Null
    /\ {resp.Diagnostics[i].attr : i \in 1..Len(resp.Diagnostics)}
          = {"keyspace", "table", "grantee", "permission"}
    /\ Len(resp.Diagnostics) = 4

\* C5: a non-empty permission, in any letter case, is accepted iff its
\* upper-cased form is in {CREATE, ALTER, DROP, SELECT, MODIFY, AUTHORIZE,
\* DESCRIBE}; select, SELECT and SeLeCt pass for a table grant, FLY fails for
\* every variant.
PermissionAccepted ==
    \A i \in 1..Len(resp.Diagnostics) : resp.Diagnostics[i].attr # "permission"

DocumentedPermissions(kind) ==
    IF kind = "keyspace" THEN keyspaceGrantSchemaPermissions
    ELSE IF kind = "table" THEN tableGrantSchemaPermissions
    ELSE tableGrantDirectSchemaPermissions

C6_AcceptsTheDocumentedPermissions ==
    (Returned("Validate") /\ ~FieldMissing(req.data.Permission)) =>
        (PermissionAccepted <=>
            strings_ToUpper(req.data.Permission.value) \in DocumentedPermissions(req.data.kind))

\* C7: a Read sends nothing but LIST ... PERMISSION statements, never GRANT or
\* REVOKE, and leaves the grants of the database as they were.
IsListStatement(s) ==
    /\ Len(s) >= 5 /\ SubSeq(s, 1, 5) = "LIST "
    /\ ClaimContains(s, " PERMISSION ON ")

C7_ReadOnlyLists ==
    [][(pc = "called" /\ req.op = "Read" /\ pc' = "returned") =>
          (db' = db /\ \A i \in 1..Len(sent') : IsListStatement(sent'[i]))]_vars

C7_Witness ==
    /\ Returned("Read")
    /\ Len(sent) = 1 /\ IsListStatement(sent[1])
    /\ db # {}
    /\ ReportsFound

\* C8: Update of a grant, keyspace or table, always reports an error, sends no
\* statement and writes nothing to the state, whatever plan and prior state.
C8_UpdateUnsupported ==
    Returned("Update") =>
        /\ HasError(resp.Diagnostics)
        /\ sent = <<>> /\ ~reply.called
        /\ resp.State = req.prior

C8_Witness ==
    /\ Returned("Update")
    /\ req.data.kind = "table"
    /\ req.data.Permission = Str("select")
    /\ req.prior.present /\ req.prior.raw.Permission = Str("SELECT")
    /\ HasError(resp.Diagnostics)

\* C9: when the Executor's error text holds "doesn't exist", Read's outcome is
\* not-found: the resource is removed from the state and no error is reported.
C9_MissingObjectIsNotFound ==
    (Returned("Read") /\ reply.called /\ reply.err.isErr
        /\ ClaimContains(reply.err.msg, "doesn't exist")) =>
        ReportsNotFound

C9_Witness ==
    /\ Returned("Read")
    /\ reply.called /\ reply.err = Err("Role r1 doesn't exist.")
    /\ sent # <<>>
    /\ ReportsNotFound

\* C10: when the Executor's error text does not hold "doesn't exist", Read
\* reports an error whose text includes the rendered LIST statement (the
\* statement that was sent, if one was), and neither removes nor rewrites the
\* state.
HoldsListStatement(detail, data) ==
    \E p \in {data.Permission.value, strings_ToUpper(data.Permission.value)} :
        ClaimContains(detail, "LIST " \o p \o " PERMISSION ON " \o ClaimObject(data)
                              \o " OF " \o ClaimQuote(data.Grantee.value))

C10_OtherErrorIsReported ==
    (Returned("Read") /\ reply.called /\ reply.err.isErr
        /\ ~ClaimContains(reply.err.msg, "doesn't exist")) =>
        /\ Len(resp.Diagnostics) = 1
        /\ HoldsListStatement(resp.Diagnostics[1].detail, req.data)
        /\ sent # <<>> => ClaimContains(resp.Diagnostics[1].detail, sent[1])
        /\ ClaimContains(resp.Diagnostics[1].detail, reply.err.msg)
        /\ StateUntouched

C10_Witness ==
    /\ Returned("Read")
    /\ reply.called /\ reply.err = Err("Operation timed out")
    /\ Len(sent) = 1 /\ IsListStatement(sent[1])
    /\ ClaimContains(resp.Diagnostics[1].detail, sent[1])
    /\ StateUntouched

\* C11: when a successful listing lacks one of the columns role, resource and
\* permission, Read reports an error and leaves the state untouched, neither
\* set (Found) nor removed (not-found), also when the listing has no rows.
ListingLacksColumn ==
    \E name \in {"role", "resource", "permission"} :
        \A k \in 1..Len(reply.result.ColSpec) : reply.result.ColSpec[k] # name

C11_MissingColumnIsAnError ==
    (Returned("Read") /\ reply.called /\ ~reply.err.isErr /\ ListingLacksColumn) =>
        /\ HasError(resp.Diagnostics)
        /\ StateUntouched
        /\ ~ReportsFound /\ ~ReportsNotFound

C11_Witness ==
    /\ Returned("Read")
    /\ reply.called /\ ~reply.err.isErr
    /\ reply.result.ColSpec = <<"role", "resource">>
    /\ reply.result.Rows = <<>>
    /\ HasError(resp.Diagnostics)
    /\ StateUntouched

\* C12: when the Executor returns an error, Create and Delete report one error
\* holding the rendered statement and the Executor's message; Create writes no
\* state and Delete leaves the state as it was.
HoldsStatement(detail, verb, prep, data) ==
    \E p \in {data.Permission.value, strings_ToUpper(data.Permission.value)} :
        ClaimContains(detail, verb \o " " \o p \o " ON " \o ClaimObject(data)
                              \o " " \o prep \o " " \o ClaimQuote(data.Grantee.value))

C12_ExecutionErrorIsReported ==
    (pc = "returned" /\ req.op \in {"Create", "Delete"}
        /\ reply.called /\ reply.err.isErr) =>
        /\ Len(resp.Diagnostics) = 1
        /\ IF req.op = "Create"
           THEN HoldsStatement(resp.Diagnostics[1].detail, "GRANT", "TO", req.data)
           ELSE HoldsStatement(resp.Diagnostics[1].detail, "REVOKE", "FROM", req.data)
        /\ sent # <<>> => ClaimContains(resp.Diagnostics[1].detail, sent[1])
        /\ ClaimContains(resp.Diagnostics[1].detail, reply.err.msg)
        /\ StateUntouched
        /\ req.op = "Create" => ~resp.State.present
        /\ req.op = "Delete" => resp.State.present

C12_Witness ==
    /\ Returned("Create")
    /\ req.data.kind = "keyspace"
    /\ reply.called /\ reply.err = Err("Operation timed out")
    /\ Len(sent) = 1
    /\ ClaimContains(resp.Diagnostics[1].detail, sent[1])
    /\ resp.State = NullState

\* C13: for one valid triple Create sends exactly GRANT <P> ON <obj> TO <g>,
\* Read sends LIST <P> PERMISSION ON <obj> OF <g> and Delete sends
\* REVOKE <P> ON <obj> FROM <g>, with <P> the upper-cased permission, <g> the
\* double-quoted grantee and <obj> KEYSPACE "<ks>" or "<ks>"."<tbl>": the same
\* three fragments in the three statements.
C13_StatementTexts ==
    (pc = "idle" /\ Len(log) >= 3) =>
        LET P == strings_ToUpper(req.data.Permission.value)
            obj == ClaimObject(req.data)
            g == ClaimQuote(req.data.Grantee.value)
        IN  /\ log[1].op = "Create"
            /\ log[1].sent = <<"GRANT " \o P \o " ON " \o obj \o " TO " \o g>>
            /\ log[2].op = "Read"
            /\ log[2].sent = <<"LIST " \o P \o " PERMISSION ON " \o obj \o " OF " \o g>>
            /\ log[3].op = "Delete"
            /\ log[3].sent = <<"REVOKE " \o P \o " ON " \o obj \o " FROM " \o g>>

C13_Witness ==
    /\ pc = "idle" /\ Len(log) = 4
    /\ req.data.kind = "keyspace"
    /\ req.data.Permission = Str("select")
    /\ log[1].sent = <<"GRANT SELECT ON KEYSPACE \"KS\" TO \"r2\"">>
    /\ log[2].sent = <<"LIST SELECT PERMISSION ON KEYSPACE \"KS\" OF \"r2\"">>
    /\ log[3].sent = <<"REVOKE SELECT ON KEYSPACE \"KS\" FROM \"r2\"">>

\* C14: a Create, Read or Delete is a single attempt: it sends at most one
\* statement, calls the Executor when validation passes, sends nothing again
\* after an error and sends no statement of another operation.
StatementVerb(op) ==
    IF op = "Create" THEN "GRANT " ELSE IF op = "Read" THEN "LIST " ELSE "REVOKE "

StartsWith(s, prefix) == Len(s) >= Len(prefix) /\ SubSeq(s, 1, Len(prefix)) = prefix

C14_SingleAttempt ==
    (pc = "returned" /\ req.op \in {"Create", "Read", "Delete"}) =>
        /\ Len(sent) <= 1
        /\ sent # <<>> => reply.called
        /\ ~ClaimInvalid(req.data) =>
              (reply.called /\ (Len(sent) = 1 \/ reply.err.isErr))
        /\ \A i \in 1..Len(sent) : StartsWith(sent[i], StatementVerb(req.op))

C14_Witness ==
    /\ Returned("Delete")
    /\ ~ClaimInvalid(req.data)
    /\ reply.called /\ reply.err = Err("Operation timed out")
    /\ Len(sent) = 1 /\ StartsWith(sent[1], "REVOKE ")
    /\ HasError(resp.Diagnostics)

\* C15: in every statement a grant operation sends, the grantee, the
\* keyspace and the table stand only in escaped form (between double quotes,
\* each embedded double quote doubled) and the unquoted permission is one of
\* the upper-case vocabulary: the statement reads back as the one grant asked
\* for, whatever the names hold.
RECURSIVE ClaimDoubled(_, _)
ClaimDoubled(s, q) ==
    IF s = "" THEN ""
    ELSE (IF SubSeq(s, 1, 1) = q THEN q \o q ELSE SubSeq(s, 1, 1))
         \o ClaimDoubled(SubSeq(s, 2, Len(s)), q)

ClaimEscaped(name) == "\"" \o ClaimDoubled(name, "\"") \o "\""

ClaimEscapedObject(data) ==
    IF IsTable(data)
    THEN ClaimEscaped(data.Keyspace.value) \o "." \o ClaimEscaped(data.Table.value)
    ELSE "KEYSPACE " \o ClaimEscaped(data.Keyspace.value)

SafeStatement(stmt, op, data) ==
    \E P \in ClaimVocabulary :
        /\ stmt = StatementVerb(op) \o P
                  \o (IF op = "Read" THEN " PERMISSION ON " ELSE " ON ")
                  \o ClaimEscapedObject(data)
                  \o (IF op = "Create" THEN " TO " ELSE IF op = "Read" THEN " OF " ELSE " FROM ")
                  \o ClaimEscaped(data.Grantee.value)
        /\ ParseStatement(stmt).ok
        /\ ParseStatement(stmt).grant =
              [role |-> data.Grantee.value,
               resource |-> ClaimListingIdentity(data),
               permission |-> P]

C15_InjectionSafety ==
    pc = "returned" => \A i \in 1..Len(sent) : SafeStatement(sent[i], req.op, req.data)

C15_Witness ==
    /\ Returned("Delete")
    /\ req.data.kind = "tableDirect"
    /\ req.data.Grantee = Str("r\" TO \"x")
    /\ sent = <<"REVOKE SELECT ON \"k\"\"s\".\"t\" FROM \"r\"\" TO \"\"x\"">>

\* C16: QName(s) is s between double quotes with every embedded double quote
\* doubled, and stripping the outer quotes and replacing each doubled double
\* quote by one gives s back; the_"cool"_identifier becomes
\* "the_""cool""_identifier".
RECURSIVE ClaimUndoubled(_, _)
ClaimUndoubled(t, q) ==
    IF t = "" THEN ""
    ELSE IF Len(t) >= 2 /\ SubSeq(t, 1, 2) = q \o q
    THEN q \o ClaimUndoubled(SubSeq(t, 3, Len(t)), q)
    ELSE SubSeq(t, 1, 1) \o ClaimUndoubled(SubSeq(t, 2, Len(t)), q)

ClaimUnquoted(t, q) == ClaimUndoubled(SubSeq(t, 2, Len(t) - 1), q)

C16_QNameRoundTrip ==
    Returned("QName") =>
        /\ resp.cql = "\"" \o ClaimDoubled(req.data.s, "\"") \o "\""
        /\ ClaimUnquoted(resp.cql, "\"") = req.data.s
        /\ req.data.s = "the_\"cool\"_identifier"
              => resp.cql = "\"the_\"\"cool\"\"_identifier\""

C16_Witness ==
    /\ Returned("QName")
    /\ req.data.s = "the_\"cool\"_identifier"
    /\ resp.cql = "\"the_\"\"cool\"\"_identifier\""
    /\ ClaimUnquoted(resp.cql, "\"") = req.data.s

\* C17: String(s) is s between single quotes with every embedded single quote
\* doubled and no other character changed, and un-doubling gives s back;
\* Joe's string becomes 'Joe''s string'.
C17_StringRoundTrip ==
    Returned("String") =>
        /\ resp.cql = "'" \o ClaimDoubled(req.data.s, "'") \o "'"
        /\ ClaimUnquoted(resp.cql, "'") = req.data.s
        /\ req.data.s = "Joe's string" => resp.cql = "'Joe''s string'"

C17_Witness ==
    /\ Returned("String")
    /\ req.data.s = "Joe's string"
    /\ resp.cql = "'Joe''s string'"
    /\ ClaimUnquoted(resp.cql, "'") = req.data.s

\* C18: a call of Once appends its first text iff no earlier call on the same
\* Builder used the same key, and its alternative text otherwise; keys do not
\* affect each other, nor does the other Builder: Once(k, "W", "A") three
\* times gives WAA with one key and WWW with three keys.
KeyUsed(calls, i, key) ==
    \E j \in 1..Len(calls) :
        calls[j].call = "Once" /\ calls[j].b = i /\ calls[j].key = key

OnceCalls(calls, i, keys) ==
    /\ Len(calls) = Len(keys)
    /\ \A j \in 1..Len(calls) :
          calls[j].call = "Once" /\ calls[j].b = i /\ calls[j].key = keys[j]

C18_OncePerKey ==
    [][(Len(log') = Len(log) + 1 /\ log'[Len(log')].call = "Once") =>
          LET e == log'[Len(log')]
          IN  /\ resp'.builders[e.b].stmt =
                    resp.builders[e.b].stmt
                    \o (IF KeyUsed(log, e.b, e.key) THEN e.a[2] ELSE e.a[1])
              /\ \A i \in BuilderIds \ {e.b} : resp'.builders[i] = resp.builders[i]
              /\ OnceCalls(log', e.b, <<"k1", "k1", "k1">>)
                    => Builder_String(resp'.builders[e.b]) = "WAA"
              /\ OnceCalls(log', e.b, <<"k1", "k2", "k3">>)
                    => Builder_String(resp'.builders[e.b]) = "WWW"]_vars

C18_Witness ==
    /\ Len(log) = 3
    /\ log[1].call = "Once" /\ log[1].b = 1 /\ log[1].key = "k1"
    /\ log[2].call = "Once" /\ log[2].b = 2 /\ log[2].key = "k1"
    /\ log[3].call = "Once" /\ log[3].b = 1 /\ log[3].key = "k1"
    /\ Builder_String(resp.builders[1]) = "WA"
    /\ Builder_String(resp.builders[2]) = "W"

\* C19: String() is the concatenation, in call order, of what each call
\* contributed (Appendf: its format with each %s replaced by the matching
\* fragment, verbatim), and a call leaves the text appended before it alone.
RECURSIVE ClaimSubstituted(_, _)
ClaimSubstituted(format, a) ==
    IF format = "" THEN ""
    ELSE IF StartsWith(format, "%s") /\ a # <<>>
    THEN a[1] \o ClaimSubstituted(SubSeq(format, 3, Len(format)), Tail(a))
    ELSE SubSeq(format, 1, 1) \o ClaimSubstituted(SubSeq(format, 2, Len(format)), a)

RECURSIVE ClaimJoined(_)
ClaimJoined(a) == IF a = <<>> THEN "" ELSE a[1] \o ClaimJoined(Tail(a))

Contributed(calls, j) ==
    IF calls[j].call = "Append" THEN ClaimJoined(calls[j].a)
    ELSE IF calls[j].call = "Appendf" THEN ClaimSubstituted(calls[j].format, calls[j].a)
    ELSE IF KeyUsed(SubSeq(calls, 1, j - 1), calls[j].b, calls[j].key)
    THEN calls[j].a[2]
    ELSE calls[j].a[1]

RECURSIVE ContributedTo(_, _, _)
ContributedTo(calls, i, j) ==
    IF j = 0 THEN ""
    ELSE ContributedTo(calls, i, j - 1)
         \o (IF calls[j].b = i THEN Contributed(calls, j) ELSE "")

C19_AppendOnly ==
    [][\A i \in BuilderIds :
          /\ Builder_String(resp'.builders[i]) = ContributedTo(log', i, Len(log'))
          /\ StartsWith(Builder_String(resp'.builders[i]), Builder_String(resp.builders[i]))]_vars

C19_Witness ==
    /\ Len(log) = 3
    /\ log[1].call = "Appendf" /\ log[1].b = 1 /\ log[1].format = "a%sb"
    /\ log[2].call = "Once" /\ log[2].b = 1
    /\ log[3].call = "Append" /\ log[3].b = 1 /\ log[3].a = <<"x", " y">>
    /\ Builder_String(resp.builders[1]) = "a%sbWx y"
    /\ Builder_String(resp.builders[2]) = ""

\* C20: the listing identity is "<table " + lower(keyspace) + "." +
\* lower(table) + ">" for a table and "<keyspace " + lower(keyspace) + ">" for
\* a keyspace, so that names differing only in letter case have one identity:
\* KS/Tbl and ks/tbl both give <table ks.tbl>.
SameLowerNames(d, e) ==
    /\ strings_ToLower(d.Keyspace.value) = strings_ToLower(e.Keyspace.value)
    /\ IsTable(d) => strings_ToLower(d.Table.value) = strings_ToLower(e.Table.value)

C20_ListingIdentityIsLowerCased ==
    Returned("listResource") =>
        /\ resp.identity = ClaimListingIdentity(req.data)
        /\ \A e \in ListingData(req.data.kind) :
              SameLowerNames(req.data, e) => ListingIdentityOf(e) = resp.identity
        /\ (IsTable(req.data) /\ req.data.Keyspace.value \in {"KS", "ks"}
              /\ req.data.Table.value \in {"Tbl", "tbl"})
              => resp.identity = "<table ks.tbl>"
        /\ (~IsTable(req.data) /\ req.data.Keyspace.value \in {"KS", "ks"})
              => resp.identity = "<keyspace ks>"

C20_Witness ==
    /\ Returned("listResource")
    /\ req.data.kind = "table"
    /\ req.data.Keyspace = Str("KS") /\ req.data.Table = Str("Tbl")
    /\ resp.identity = "<table ks.tbl>"

(***************************************************************************)
(* The provider object and its connection (internal/provider/provider.go): *)
(* Configure, initConn, execute, and the copy of the provider a resource   *)
(* holds.  A connection is named by the hostport it was opened to; NilConn *)
(* is the nil *transport.Conn.                                             *)
(*                                                                         *)
(* In SpecConn the variables hold: req, the provider the Host configured   *)
(* (req.provider) and the resource NewResource returned (req.resource);    *)
(* resp, the diagnostics of Configure; reply and sent, what the last       *)
(* operation's execute returned and sent; log, one entry per operation     *)
(* with the hosts it dialled; pc, "new", "configured" or "ready".          *)
(***************************************************************************)
MaxOps == 2

NilConn == ""

provider_New ==
    [conn |-> NilConn, hosts |-> <<>>,
     connConfig |-> [Username |-> "", Password |-> ""], configured |-> FALSE]

\* strings.Split for a separator of one character.
RECURSIVE strings_Split(_, _, _)
strings_Split(s, sep, word) ==
    IF Len(s) = 0 THEN <<word>>
    ELSE IF SubSeq(s, 1, 1) = sep
    THEN <<word>> \o strings_Split(SubSeq(s, 2, Len(s)), sep, "")
    ELSE strings_Split(SubSeq(s, 2, Len(s)), sep, word \o SubSeq(s, 1, 1))

\* net.SplitHostPort accepts host:port with one colon (no brackets here);
\* net.JoinHostPort puts a host that holds a colon in brackets.
addDefaultPort(hostport) ==
    LET colons == Cardinality({i \in 1..Len(hostport) : SubSeq(hostport, i, i) = ":"})
    IN  IF colons = 1 THEN hostport
        ELSE IF colons = 0 THEN hostport \o ":9042"
        ELSE "[" \o hostport \o "]:9042"

\* Configure on the provider p: data.getErr tells that req.Config.Get failed.
provider_Configure(p, data) ==
    IF data.getErr
    THEN [p |-> p,
          Diagnostics |-> <<Error("Value Conversion Error", "cannot read the configuration")>>]
    ELSE LET split == strings_Split(data.Hosts.value, ",", "")
             hosts == IF data.Hosts.value = "" THEN p.hosts
                      ELSE p.hosts \o [i \in 1..Len(split) |-> addDefaultPort(split[i])]
             diags == IF data.Hosts.value = ""
                      THEN <<AttributeError("hosts", "No hosts configured",
                               "The hosts field must contain at least one host to connect to")>>
                      ELSE <<>>
         IN  [p |-> [conn |-> p.conn, hosts |-> hosts,
                     connConfig |->
                        [Username |-> IF IsNull(data.Username) THEN p.connConfig.Username
                                      ELSE data.Username.value,
                         Password |-> IF IsNull(data.Password) THEN p.connConfig.Password
                                      ELSE data.Password.value],
                     configured |-> TRUE],
              Diagnostics |-> diags]

\* transport.OpenConn to hostport, when the hosts of up accept connections.
OpenConn(hostport, up) ==
    IF hostport \in up THEN [conn |-> hostport, err |-> NoErr]
    ELSE [conn |-> NilConn, err |-> Err("dial tcp " \o hostport \o ": connection refused")]

\* A loop that keeps dialling after a connection opened and keeps the last.
RECURSIVE initConnLoop_keepsLast(_, _, _, _, _)
initConnLoop_keepsLast(p, up, i, lastErr, dials) ==
    IF i > Len(p.hosts)
    THEN [p |-> p, err |-> IF p.conn = NilConn THEN lastErr ELSE NoErr, dials |-> dials]
    ELSE IF OpenConn(p.hosts[i], up).err.isErr
    THEN initConnLoop_keepsLast(p, up, i + 1, OpenConn(p.hosts[i], up).err,
                      Append(dials, [hostport |-> p.hosts[i], opened |-> FALSE]))
    ELSE initConnLoop_keepsLast([p EXCEPT !.conn = OpenConn(p.hosts[i], up).conn], up,
                      i + 1, lastErr,
                      Append(dials, [hostport |-> p.hosts[i], opened |-> TRUE]))

\* The loop of initConn from the i-th host on: the provider afterwards, the
\* error returned and the hosts dialled, in order.
RECURSIVE initConnLoop(_, _, _, _, _)
initConnLoop(p, up, i, lastErr, dials) ==
    IF i > Len(p.hosts) THEN [p |-> p, err |-> lastErr, dials |-> dials]
    ELSE IF OpenConn(p.hosts[i], up).err.isErr
    THEN initConnLoop(p, up, i + 1, OpenConn(p.hosts[i], up).err,
                      Append(dials, [hostport |-> p.hosts[i], opened |-> FALSE]))
    ELSE [p |-> [p EXCEPT !.conn = OpenConn(p.hosts[i], up).conn], err |-> NoErr,
          dials |-> Append(dials, [hostport |-> p.hosts[i], opened |-> TRUE])]

\* An initConn whose loop goes on after a connection opened.
provider_initConn_keepsLast(p, up) ==
    IF p.conn # NilConn THEN [p |-> p, err |-> NoErr, dials |-> <<>>]
    ELSE initConnLoop_keepsLast(p, up, 1, NoErr, <<>>)

provider_initConn(p, up) ==
    IF p.conn # NilConn THEN [p |-> p, err |-> NoErr, dials |-> <<>>]
    ELSE initConnLoop(p, up, 1, NoErr, <<>>)

\* execute on the provider p: answer is what Query returns through an open
\* connection.  Query through the nil connection dereferences it: the call
\* panics, nothing is sent and execute returns nothing.
provider_execute(p, up, answer, query) ==
    LET c == provider_initConn(p, up)
    IN  IF c.err.isErr
        THEN [p |-> c.p, dials |-> c.dials, initErr |-> c.err, err |-> c.err,
              sent |-> <<>>, queried |-> FALSE, panic |-> FALSE]
        ELSE IF c.p.conn = NilConn
        THEN [p |-> c.p, dials |-> c.dials, initErr |-> c.err, err |-> NoErr,
              sent |-> <<>>, queried |-> TRUE, panic |-> TRUE]
        ELSE [p |-> c.p, dials |-> c.dials, initErr |-> c.err, err |-> answer,
              sent |-> <<query>>, queried |-> TRUE, panic |-> FALSE]

\* convertProviderType dereferences the Host's provider: the resource holds
\* a copy of the provider as it is at that moment.
convertProviderType(p) == p

NoResource == [made |-> FALSE, provider |-> provider_New]
NewResourceOf(p) == [made |-> TRUE, provider |-> convertProviderType(p)]

\* A method of a resource has a value receiver: it works on a copy r of the
\* resource, and r.provider.execute changes the provider inside that copy.
\* The resource the Host holds is as before; the copy ends with the call.
resourceMethod(resource0, up, answer, query) ==
    LET r == resource0
        e == provider_execute(r.provider, up, answer, query)
    IN  [resource |-> resource0, receiver |-> [r EXCEPT !.provider = e.p], execute |-> e]

HostsIn == {"", "h1", "h1,h2", "h2:9000,h1,h3"}
ProviderDataIn ==
    {[getErr |-> FALSE, Hosts |-> IF h = "" THEN Null ELSE Str(h), Username |-> u,
      Password |-> u] : h \in HostsIn, u \in {Null, Str("cassandra")}}
    \cup {[getErr |-> FALSE, Hosts |-> Str(""), Username |-> Null, Password |-> Null],
          [getErr |-> TRUE, Hosts |-> Null, Username |-> Null, Password |-> Null]}
QueryAnswers == {NoErr, Err("Operation timed out")}
ConnQueries == {"LIST SELECT ON \"ks\" OF \"r1\""}

HostSet(p) == {p.hosts[i] : i \in 1..Len(p.hosts)}

InitConn ==
    /\ db = {}
    /\ pc = "new"
    /\ req = [provider |-> provider_New, resource |-> NoResource]
    /\ resp = NoResponse
    /\ sent = <<>>
    /\ reply = [called |-> FALSE]
    /\ script = <<>>
    /\ log = <<>>

Configure ==
    /\ pc = "new"
    /\ \E data \in ProviderDataIn :
         \E c \in {provider_Configure(req.provider, data)} :
            /\ req' = [req EXCEPT !.provider = c.p]
            /\ resp' = [Diagnostics |-> c.Diagnostics, State |-> NullState]
    /\ pc' = "configured"
    /\ UNCHANGED <<db, sent, reply, script, log>>

NewResource ==
    /\ pc = "configured"
    /\ req' = [req EXCEPT !.resource = NewResourceOf(req.provider)]
    /\ pc' = "ready"
    /\ UNCHANGED <<db, resp, sent, reply, script, log>>

\* Any Create, Read or Delete of a resource: one call of r.provider.execute.
ResourceOperation ==
    /\ pc = "ready"
    /\ Len(log) < MaxOps
    /\ \E up \in SUBSET HostSet(req.resource.provider), answer \in QueryAnswers,
          query \in ConnQueries :
         \E m \in {resourceMethod(req.resource, up, answer, query)} :
            /\ req' = [req EXCEPT !.resource = m.resource]
            /\ reply' = [called |-> TRUE, up |-> up, answer |-> answer,
                         conn |-> m.receiver.provider.conn,
                         initErr |-> m.execute.initErr, err |-> m.execute.err,
                         dials |-> m.execute.dials, queried |-> m.execute.queried,
                         panic |-> m.execute.panic]
            /\ sent' = m.execute.sent
            /\ log' = Append(log, m.execute.dials)
    /\ UNCHANGED <<db, pc, resp, script>>

NextConn == Configure \/ NewResource \/ ResourceOperation

SpecConn == InitConn /\ [][NextConn]_vars

(***************************************************************************)
(* Properties of the provider's connection.                                *)
(***************************************************************************)
\* C23: after Configure returns, configured is true only if Configure
\* reported no error; a provider configured with an empty hosts value is not
\* marked configured.
C23_ConfiguredOnlyWithoutError ==
    pc # "new" => (req.provider.configured => ~HasError(resp.Diagnostics))

ClaimDialError(hostport) == Err("dial tcp " \o hostport \o ": connection refused")

\* The hosts before the i-th of the list refuse the connection.
NoneUpBefore(hosts, up, i) == \A j \in 1..(i - 1) : hosts[j] \notin up

\* C25: initConn dials the configured hosts in configuration order, keeps
\* the first connection that opens and dials no later host; when every host
\* fails it returns the error of the last host and execute sends nothing.
C25_FirstHostThatOpens ==
    reply.called =>
        LET hosts == req.resource.provider.hosts
            d == reply.dials
        IN  /\ Len(d) <= Len(hosts)
            /\ \A i \in 1..Len(d) : d[i].hostport = hosts[i]
            /\ \A i \in 1..Len(hosts) :
                  (hosts[i] \in reply.up /\ NoneUpBefore(hosts, reply.up, i)) =>
                      /\ Len(d) = i
                      /\ d[i].opened
                      /\ \A j \in 1..(i - 1) : ~d[j].opened
                      /\ reply.conn = hosts[i]
                      /\ ~reply.initErr.isErr
            /\ (Len(hosts) > 0 /\ NoneUpBefore(hosts, reply.up, Len(hosts) + 1)) =>
                      /\ Len(d) = Len(hosts)
                      /\ \A j \in 1..Len(d) : ~d[j].opened
                      /\ reply.err = ClaimDialError(hosts[Len(hosts)])
                      /\ reply.conn = NilConn
                      /\ sent = <<>>

\* Three hosts, the first refuses and the two others accept: the second is kept.
C25_Witness ==
    /\ reply.called
    /\ Len(req.resource.provider.hosts) = 3
    /\ reply.up = {req.resource.provider.hosts[2], req.resource.provider.hosts[3]}
    /\ Len(reply.dials) = 2
    /\ reply.conn = "h1:9042"

\* C27: execute never queries through a missing connection: when initConn
\* returns no error the provider holds an open connection, for every host
\* list, the empty one included; with no host configured execute returns an
\* error and does not call Query.
C27_NoQueryWithoutConnection ==
    reply.called =>
        /\ ~reply.initErr.isErr => reply.conn # NilConn
        /\ Len(req.resource.provider.hosts) = 0 => (reply.err.isErr /\ ~reply.queried)
        /\ ~reply.panic

\* The connections opened during the operations so far.
Opened(ops) == {x \in {<<i, j>> : i \in 1..Len(ops), j \in 1..3} :
                    x[2] <= Len(ops[x[1]]) /\ ops[x[1]][x[2]].opened}

\* C28: over the operations one configured provider serves, a connection is
\* opened at most once: an operation that follows one that opened a
\* connection finds it and dials no host.
C28_ConnectionOpenedOnce ==
    (req.provider.configured /\ ~HasError(resp.Diagnostics)) =>
        /\ Cardinality(Opened(log)) <= 1
        /\ \A i \in 1..Len(log) :
              (\E k \in 1..(i - 1) : \E j \in 1..Len(log[k]) : log[k][j].opened)
                  => log[i] = <<>>

(***************************************************************************)
(* Two grant operations the Host invokes concurrently.  Each runs in its   *)
(* own call: the request, the data, the Builder and the response belong to *)
(* the call, and so does the provider, which the method's receiver copies. *)
(* A call takes three steps: it decodes and validates its request and      *)
(* builds its statement, it calls execute (where the database takes the    *)
(* statement, if one is sent), and it returns its response.  The database  *)
(* is the only thing both calls reach.                                     *)
(*                                                                         *)
(* In SpecConcurrent pc, req, resp, sent and reply are pairs, one entry    *)
(* per call; script is the database at the start and log the order in      *)
(* which the calls reached execute.                                        *)
(***************************************************************************)
Calls == {1, 2}

ConcurrentOps == {"Create", "Read", "Delete"}

ConcurrentData(kinds, grantees, perms) ==
    UNION {IF k = "keyspace"
           THEN {[kind |-> k, Keyspace |-> Str("ks"), Grantee |-> Str(g),
                  Permission |-> Str(p)] : g \in grantees, p \in perms}
           ELSE {[kind |-> k, Keyspace |-> Str("ks"), Table |-> Str("t"),
                  Grantee |-> Str(g), Permission |-> Str(p)] :
                    g \in grantees, p \in perms} : k \in kinds}

ConcurrentRequests(kinds, grantees, perms, modes) ==
    {[op |-> op, data |-> d, prior |-> EntryState(op, d, NullState), mode |-> m] :
        op \in ConcurrentOps, d \in ConcurrentData(kinds, grantees, perms), m \in modes}

\* The grant a request is about, as the database holds it.
GrantOf(data) ==
    [role |-> data.Grantee.value,
     resource |-> IF data.kind = "keyspace"
                  THEN "<keyspace " \o strings_ToLower(data.Keyspace.value) \o ">"
                  ELSE "<table " \o strings_ToLower(data.Keyspace.value) \o "."
                       \o strings_ToLower(data.Table.value) \o ">",
     permission |-> strings_ToUpper(data.Permission.value)]

InitConcurrent ==
    /\ \E r1 \in ConcurrentRequests({"keyspace", "table"}, {"r1"}, {"select"},
                                    {DatabaseMode}),
          r2 \in ConcurrentRequests(Kinds, {"r1", "r2"}, {"SELECT", "FLY"},
                    {DatabaseMode, [type |-> "dial", msg |-> "dial tcp: connection refused"]}) :
         /\ GrantOf(r1.data) # GrantOf(r2.data)
         /\ req = <<r1, r2>>
         /\ db \in SUBSET {GrantOf(r1.data), GrantOf(r2.data)}
    /\ script = db
    /\ pc = <<"called", "called">>
    /\ resp = [i \in Calls |-> [Diagnostics |-> <<>>, State |-> req[i].prior]]
    /\ sent = <<<<>>, <<>>>>
    /\ reply = <<NotCalled({}), NotCalled({})>>
    /\ log = <<>>

\* The call decodes its request, validates it and builds its statement.
ConcurrentBuild ==
    /\ \E i \in Calls :
        /\ pc[i] = "called"
        /\ pc' = [pc EXCEPT ![i] = "built"]
    /\ UNCHANGED <<db, req, resp, sent, reply, script, log>>

\* The call reaches execute: its handler runs against the database as it is.
ConcurrentExecute ==
    /\ \E i \in Calls :
        /\ pc[i] = "built"
        /\ \E out \in {Handle(req[i].op, req[i].data, req[i].prior, req[i].mode, db)} :
            /\ db' = out.db
            /\ reply' = [reply EXCEPT ![i] = out]
            /\ sent' = [sent EXCEPT ![i] = out.sent]
        /\ pc' = [pc EXCEPT ![i] = "executed"]
        /\ log' = Append(log, i)
    /\ UNCHANGED <<req, resp, script>>

\* The call returns its response to the Host.
ConcurrentReturn ==
    /\ \E i \in Calls :
        /\ pc[i] = "executed"
        /\ resp' = [resp EXCEPT ![i] = [Diagnostics |-> reply[i].Diagnostics,
                                        State |-> reply[i].State]]
        /\ pc' = [pc EXCEPT ![i] = "returned"]
    /\ UNCHANGED <<db, req, sent, reply, script, log>>

NextConcurrent == ConcurrentBuild \/ ConcurrentExecute \/ ConcurrentReturn

SpecConcurrent == InitConcurrent /\ [][NextConcurrent]_vars

(***************************************************************************)
(* Properties of concurrent grant operations.                              *)
(***************************************************************************)
\* What the i-th call leaves behind when it runs alone from the database db0.
Alone(i, db0) == Handle(req[i].op, req[i].data, req[i].prior, req[i].mode, db0)

\* C21: two grant operations on different triples share no mutable state: in
\* every interleaving each sends the statement and reports the outcome it
\* sends and reports when it runs alone, and the database ends as after the
\* two run one after the other.  (The permission vocabularies, the only data
\* both read, are definitions: no action can write them.)
C21_ConcurrentCallsAreIndependent ==
    /\ \A i \in Calls :
          pc[i] \in {"executed", "returned"} => sent[i] = Alone(i, script).sent
    /\ \A i \in Calls :
          pc[i] = "returned" =>
              /\ resp[i].Diagnostics = Alone(i, script).Diagnostics
              /\ resp[i].State = Alone(i, script).State
    /\ (pc[1] = "returned" /\ pc[2] = "returned") =>
          /\ db = Alone(2, Alone(1, script).db).db
          /\ db = Alone(1, Alone(2, script).db).db

\* A Read that reaches execute after the other call's Create changed the database.
C21_Witness ==
    /\ pc = <<"returned", "returned">>
    /\ req[1].op = "Read" /\ req[2].op = "Create"
    /\ log = <<2, 1>>
    /\ db # script
    /\ sent[1] # <<>> /\ sent[2] # <<>>
    /\ ~HasError(resp[1].Diagnostics) /\ resp[1].State.present

(***************************************************************************)
(* The service level resource (internal/provider/service_level_resource.go)*)
(* and the role resource (its Read and Update).  A types.Int64 is null,    *)
(* unknown or a known number; a cell of a result row has a type ("null"    *)
(* for a nil value) and a value.                                           *)
(***************************************************************************)
Int64Null == [null |-> TRUE, unknown |-> FALSE, value |-> 0]
Int64Unknown == [null |-> FALSE, unknown |-> TRUE, value |-> 0]
Int64(v) == [null |-> FALSE, unknown |-> FALSE, value |-> v]
BoolValue(b) == [null |-> FALSE, unknown |-> FALSE, value |-> b]

\* The decimal digits of n, as fmt's %d and strconv.Itoa write them.
RECURSIVE strconv_Itoa(_)
strconv_Itoa(n) ==
    IF n < 10 THEN SubSeq("0123456789", n + 1, n + 1)
    ELSE strconv_Itoa(n \div 10) \o SubSeq("0123456789", (n % 10) + 1, (n % 10) + 1)

qb_Int(n) == strconv_Itoa(n)

\* A cell holds a number (n), a text (s) or a boolean (b), according to its type.
Cell(type, n, s, b) == [type |-> type, n |-> n, s |-> s, b |-> b]
NilCell == Cell("null", 0, "", FALSE)
TextCell(s) == Cell("text", 0, s, FALSE)
IntCell(n) == Cell("int", n, "", FALSE)
DurationCell(nanoseconds) == Cell("duration", nanoseconds, "", FALSE)
BoolCell(b) == Cell("boolean", 0, "", b)

\* AsDuration, AsText, AsInt32, AsBoolean of a cell: the value when the cell
\* is of that type, an error otherwise.
CellAs(type, cell) ==
    IF cell.type = type THEN [value |-> cell, err |-> NoErr]
    ELSE [value |-> cell, err |-> Err("value is not of type " \o type)]

serviceLevelResourceData_validate(s) ==
    (IF ~IsNull(s.Shares) /\ (s.Shares.value < 1 \/ s.Shares.value > 1000)
     THEN <<AttributeError("shares", "Out of range",
              "shares must be between 1 and 1000 (inclusive).")>>
     ELSE <<>>)
    \o
    (IF ~IsNull(s.WorkloadType)
        /\ s.WorkloadType.value \notin {"unspecified", "interactive", "batch"}
     THEN <<AttributeError("workload_type", "Unsupported value",
              "workload_type must be either \"unspecified\", \"interactive\" or \"batch\"")>>
     ELSE <<>>)

\* The optional clauses of CREATE and ALTER SERVICE LEVEL: emit tells which
\* attribute gets a clause.
serviceLevelClauses(b, data, emit) ==
    LET b1 == IF emit.Shares
              THEN Builder_Appendf(Builder_Once(b, "with", " WITH ", " AND "),
                                   "SHARES = %s", <<qb_Int(data.Shares.value)>>)
              ELSE b
        b2 == IF emit.WorkloadType
              THEN Builder_Appendf(Builder_Once(b1, "with", " WITH ", " AND "),
                                   "WORKLOAD_TYPE = %s", <<String(data.WorkloadType.value)>>)
              ELSE b1
    IN  IF emit.TimeoutMilliseconds
        THEN Builder_Appendf(Builder_Once(b2, "with", " WITH ", " AND "), "TIMEOUT = %s",
                 <<String(strconv_Itoa(data.TimeoutMilliseconds.value) \o "ms")>>)
        ELSE b2

Known(f) == ~IsNull(f) /\ ~IsUnknown(f)

serviceLevelResource_Create(data, state0, mode, db0) ==
    LET diags == serviceLevelResourceData_validate(data)
        created == [data EXCEPT !.Id = data.Name]
        stmt == serviceLevelClauses(
                    Builder_Appendf(NewBuilder, "CREATE SERVICE LEVEL %s",
                                    <<QName(created.Name.value)>>),
                    created,
                    [Shares |-> Known(created.Shares),
                     WorkloadType |-> Known(created.WorkloadType),
                     TimeoutMilliseconds |-> Known(created.TimeoutMilliseconds)])
        r == execute(mode, db0, Builder_String(stmt))
    IN  IF HasError(diags) THEN Outcome(diags, state0, NotCalled(db0))
        ELSE IF r.err.isErr
        THEN Outcome(<<Error("error creating service level", r.err.msg)>>, state0, r)
        ELSE Outcome(<<>>, State_Set(created), r)

\* What readData returns when it fails: the caller does not look at data then.
readDataFailed(msg, data, r) ==
    [exists |-> FALSE, diags |-> <<Error("Query error", msg)>>, data |-> data, r |-> r]

\* readData after execute returned r without error and with a row: the row's
\* cells under the columns found, decoded into data.
readDataRow(data, r, row, colTimeout, colWorkloadType, colShares) ==
    IF colTimeout.err.isErr THEN readDataFailed(colTimeout.err.msg, data, r)
    ELSE IF colWorkloadType.err.isErr
    THEN readDataFailed(colWorkloadType.err.msg, data, r)
    ELSE IF row[colTimeout.idx].type # "null"
            /\ CellAs("duration", row[colTimeout.idx]).err.isErr
    THEN readDataFailed("read timeout: "
                        \o CellAs("duration", row[colTimeout.idx]).err.msg, data, r)
    ELSE IF row[colWorkloadType.idx].type # "null"
            /\ CellAs("text", row[colWorkloadType.idx]).err.isErr
    THEN readDataFailed("read workload_type: "
                        \o CellAs("text", row[colWorkloadType.idx]).err.msg, data, r)
    ELSE IF ~colShares.err.isErr /\ row[colShares.idx].type # "null"
            /\ CellAs("int", row[colShares.idx]).err.isErr
    THEN readDataFailed("read shares: "
                        \o CellAs("int", row[colShares.idx]).err.msg, data, r)
    ELSE [exists |-> TRUE, diags |-> <<>>, r |-> r,
          data |-> [data EXCEPT
             !.TimeoutMilliseconds =
                 IF row[colTimeout.idx].type = "null" THEN Int64Null
                 ELSE Int64(CellAs("duration", row[colTimeout.idx]).value.n \div 1000000),
             !.WorkloadType =
                 IF row[colWorkloadType.idx].type = "null" THEN Null
                 ELSE Str(CellAs("text", row[colWorkloadType.idx]).value.s),
             !.Shares =
                 IF colShares.err.isErr \/ row[colShares.idx].type = "null"
                 THEN Int64Null
                 ELSE Int64(CellAs("int", row[colShares.idx]).value.n)]]

\* readData after execute returned r.
readDataResult(data, r) ==
    IF r.err.isErr
    THEN readDataFailed("Unable to read service level info: " \o r.err.msg, data, r)
    ELSE IF Len(r.result.Rows) = 0
    THEN [exists |-> FALSE, diags |-> <<>>, data |-> data, r |-> r]
    ELSE readDataRow(data, r, r.result.Rows[1], findColumn("timeout", r.result.ColSpec),
                     findColumn("workload_type", r.result.ColSpec),
                     findColumn("shares", r.result.ColSpec))

\* readData: [exists, diags, data, r] with r what execute returned.
serviceLevelResource_readData(data, mode, db0) ==
    readDataResult(data,
        execute(mode, db0,
                Builder_String(Builder_Appendf(NewBuilder, "LIST SERVICE LEVEL %s",
                                               <<QName(data.Id.value)>>))))

serviceLevelResource_Read(data, state0, mode, db0) ==
    LET read == serviceLevelResource_readData(data, mode, db0)
    IN  IF HasError(read.diags) THEN Outcome(read.diags, state0, read.r)
        ELSE IF ~read.exists THEN Outcome(read.diags, State_RemoveResource, read.r)
        ELSE Outcome(read.diags, State_Set(read.data), read.r)

\* mode is what happens to the ALTER, mode2 what happens to the re-read.
serviceLevelResource_Update(plan, state0, mode, mode2, db0) ==
    LET state == state0.raw
        stmt == serviceLevelClauses(
                    Builder_Appendf(NewBuilder, "ALTER SERVICE LEVEL %s",
                                    <<QName(plan.Id.value)>>),
                    plan,
                    [Shares |-> plan.Shares # state.Shares /\ Known(plan.Shares),
                     WorkloadType |-> plan.WorkloadType # state.WorkloadType
                                      /\ Known(plan.WorkloadType),
                     TimeoutMilliseconds |->
                        plan.TimeoutMilliseconds # state.TimeoutMilliseconds
                        /\ Known(plan.TimeoutMilliseconds)])
        r == execute(mode, db0, Builder_String(stmt))
    IN  IF r.err.isErr
        THEN Outcome(<<Error("Error altering role", r.err.msg)>>, state0, r)
        ELSE LET read == serviceLevelResource_readData(plan, mode2, r.db)
                 r2 == [read.r EXCEPT !.sent = r.sent \o read.r.sent]
             IN  IF ~read.exists THEN Outcome(read.diags, State_RemoveResource, r2)
                 ELSE Outcome(read.diags, State_Set(read.data), r2)

\* bcrypt.CompareHashAndPassword: "$2" and a minor version letter, "$", the
\* cost, "$" and the digest, written here as the password between < and >.
\* Anything else under the prefix is a malformed hash, an error as well.
bcrypt_CompareHashAndPassword(hash, password) ==
    IF hash \in {"$2a$10$<" \o password \o ">", "$2y$10$<" \o password \o ">"}
    THEN NoErr
    ELSE Err("crypto/bcrypt: hashedPassword is not the hash of the given password")

\* A prefix test that takes every hash for one of the scheme asked about.
strings_HasPrefix_always(s, prefix) == TRUE

strings_HasPrefix(s, prefix) ==
    Len(s) >= Len(prefix) /\ SubSeq(s, 1, Len(prefix)) = prefix

RoleQuery == "SELECT can_login, is_superuser, salted_hash FROM system_auth.roles WHERE role = ?"

\* The ids tried are ASCII, so frame.CqlFromASCII does not fail.
roleResource_Read(data, state0, mode, db0) ==
    LET r == execute(mode, db0, RoleQuery)
        row == r.result.Rows[1]
        canLogin == CellAs("boolean", row[1])
        isSuperuser == CellAs("boolean", row[2])
        saltedHash == CellAs("text", row[3])
        failed(what, e) ==
            Outcome(<<Error("Query result error",
                            "Unable to read role " \o what \o ": " \o e.msg)>>, state0, r)
        data1 == [data EXCEPT !.Login = BoolValue(canLogin.value.b),
                              !.Superuser = BoolValue(isSuperuser.value.b)]
        drift == /\ ~IsNull(data.Password)
                 /\ \/ strings_HasPrefix(saltedHash.value.s, "$2a$")
                    \/ strings_HasPrefix(saltedHash.value.s, "$2y$")
                 /\ bcrypt_CompareHashAndPassword(saltedHash.value.s,
                                                  data.Password.value).isErr
    IN  IF r.err.isErr
        THEN Outcome(<<Error("Query error", "Unable to read role info: " \o r.err.msg)>>,
                     state0, r)
        ELSE IF Len(r.result.Rows) = 0 THEN Outcome(<<>>, State_RemoveResource, r)
        ELSE IF canLogin.err.isErr THEN failed("can_login", canLogin.err)
        ELSE IF isSuperuser.err.isErr THEN failed("is_superuser", isSuperuser.err)
        ELSE IF saltedHash.err.isErr THEN failed("salted_hash", saltedHash.err)
        ELSE Outcome(<<>>,
                     State_Set(IF drift THEN [data1 EXCEPT !.Password = Unknown]
                               ELSE data1), r)

roleResource_Update(plan, state0, mode, db0) ==
    LET state == state0.raw
        b0 == Builder_Appendf(NewBuilder, "ALTER ROLE %s", <<QName(plan.Id.value)>>)
        b1 == IF plan.Login # state.Login
              THEN Builder_Appendf(Builder_Once(b0, "with", " WITH ", " AND "),
                                   "LOGIN = %s", <<Bool(plan.Login.value)>>)
              ELSE b0
        b2 == IF plan.Superuser # state.Superuser
              THEN Builder_Appendf(Builder_Once(b1, "with", " WITH ", " AND "),
                                   "SUPERUSER = %s", <<Bool(plan.Superuser.value)>>)
              ELSE b1
        b3 == IF plan.Password # state.Password /\ ~IsNull(plan.Password)
              THEN Builder_Appendf(Builder_Once(b2, "with", " WITH ", " AND "),
                                   "PASSWORD = %s", <<String(plan.Password.value)>>)
              ELSE b2
        r == execute(mode, db0, Builder_String(b3))
    IN  IF r.err.isErr
        THEN Outcome(<<Error("error altering role", r.err.msg)>>, state0, r)
        ELSE Outcome(<<>>, State_Set(plan), r)

(***************************************************************************)
(* The Host's requests to the service level and the role resource, and     *)
(* what the Executor answers: mode for the first statement of the handler, *)
(* mode2 for the re-read of the service level Update.                      *)
(***************************************************************************)
ServiceLevelData(id, shares, workloadTypes, timeouts) ==
    {[kind |-> "serviceLevel", Name |-> Str("sl1"), Id |-> id, Shares |-> s,
      WorkloadType |-> w, TimeoutMilliseconds |-> t] :
        s \in shares, w \in workloadTypes, t \in timeouts}

RoleData(logins, passwords) ==
    {[kind |-> "role", Name |-> Str("role1"), Id |-> Str("role1"), Login |-> l,
      Superuser |-> BoolValue(FALSE), Password |-> p] : l \in logins, p \in passwords}

Answered == [type |-> "result", result |-> EmptyResult]
Refused == {[type |-> "dial", msg |-> "dial tcp: connection refused"],
            [type |-> "error", msg |-> "Operation timed out"]}

\* A result of one row: cols names the columns, cells gives a cell per name.
RowResult(cols, cells) ==
    [ColSpec |-> cols, Rows |-> <<[i \in 1..Len(cols) |-> cells[cols[i]]]>>]

ServiceLevelColumns ==
    {<<"service_level", "timeout", "workload_type", "shares">>,
     <<"service_level", "timeout", "workload_type">>,
     <<"service_level", "workload_type", "shares">>,
     <<"service_level", "timeout">>}

ServiceLevelCells ==
    {[service_level |-> TextCell("sl1"), timeout |-> t, workload_type |-> w,
      shares |-> s] :
        t \in {DurationCell(500000000), NilCell, TextCell("500ms")},
        w \in {TextCell("batch"), NilCell, IntCell(7)},
        s \in {IntCell(1000), NilCell, TextCell("many")}}

ServiceLevelListings ==
    {[type |-> "result", result |-> RowResult(cols, cells)] :
        cols \in ServiceLevelColumns, cells \in ServiceLevelCells}
    \cup {[type |-> "result",
           result |-> [ColSpec |-> <<"service_level", "timeout", "workload_type">>,
                       Rows |-> <<>>]]}
    \cup Refused

RoleHashes ==
    {"$2a$10$<pw>", "$2y$10$<pw>", "$2a$10$<other>", "$2y$10$<other>", "$2a$10",
     "$6$<pw>", "$6$<other>", ""}

RoleListings ==
    {[type |-> "result",
      result |-> RowResult(<<"can_login", "is_superuser", "salted_hash">>,
                     [can_login |-> BoolCell(l), is_superuser |-> BoolCell(TRUE),
                      salted_hash |-> TextCell(h)])] :
        l \in BOOLEAN, h \in RoleHashes}
    \cup {[type |-> "result",
           result |-> RowResult(<<"can_login", "is_superuser", "salted_hash">>, cells)] :
            cells \in {[can_login |-> IntCell(1), is_superuser |-> BoolCell(TRUE),
                        salted_hash |-> TextCell("$2a$10$<pw>")],
                       [can_login |-> BoolCell(TRUE), is_superuser |-> TextCell("yes"),
                        salted_hash |-> TextCell("$2a$10$<pw>")],
                       [can_login |-> BoolCell(TRUE), is_superuser |-> BoolCell(TRUE),
                        salted_hash |-> IntCell(5)]}}
    \cup {[type |-> "result",
           result |-> [ColSpec |-> <<"can_login", "is_superuser", "salted_hash">>,
                       Rows |-> <<>>]]}
    \cup Refused

Request(op, data, prior, mode, mode2) ==
    [op |-> op, data |-> data, prior |-> prior, mode |-> mode, mode2 |-> mode2]

ObjectRequests ==
    {Request("Create", d, NullState, m, Answered) :
        d \in ServiceLevelData(Unknown,
                 {Int64Null, Int64Unknown, Int64(0), Int64(1), Int64(1000), Int64(1001)},
                 {Null, Str("batch"), Str("fast")}, {Int64Null, Int64(500)}),
        m \in {Answered} \cup Refused}
    \cup
    {Request("Read", d, Stored(d), m, Answered) :
        d \in ServiceLevelData(Str("sl1"), {Int64Null, Int64(1)}, {Null, Str("batch")},
                               {Int64Null}),
        m \in ServiceLevelListings}
    \cup
    {Request("Update", d, Stored(s), m.first, m.second) :
        d \in ServiceLevelData(Str("sl1"),
                 {Int64Null, Int64Unknown, Int64(0), Int64(1), Int64(1001)},
                 {Null, Unknown, Str("batch"), Str("x AND y")}, {Int64Null, Int64(500)}),
        s \in ServiceLevelData(Str("sl1"), {Int64Null, Int64(1)}, {Null, Str("batch")},
                               {Int64Null, Int64(500)}),
        m \in {[first |-> f, second |-> Answered] : f \in Refused}
              \cup {[first |-> Answered, second |-> l] : l \in ServiceLevelListings}}
    \cup
    {Request("Read", d, Stored(d), m, Answered) :
        d \in RoleData({BoolValue(FALSE)}, {Null, Unknown, Str("pw")}),
        m \in RoleListings}
    \cup
    {Request("Update", d, Stored(s), m, Answered) :
        d \in RoleData({BoolValue(FALSE), BoolValue(TRUE)},
                       {Null, Unknown, Str("pw"), Str("p AND q"), Str("it's")}),
        s \in RoleData({BoolValue(FALSE)}, {Null, Str("pw")}),
        m \in {Answered} \cup Refused}

ObjectInvoke ==
    /\ pc = "idle"
    /\ \E r \in ObjectRequests :
        /\ req' = r
        /\ resp' = [Diagnostics |-> <<>>, State |-> EntryState(r.op, r.data, r.prior)]
    /\ pc' = "called"
    /\ UNCHANGED <<db, sent, reply, script, log>>

ServiceLevelCreate ==
    /\ Called("serviceLevel", "Create")
    /\ \E out \in {serviceLevelResource_Create(req.data, resp.State, req.mode, db)} :
          Return(out)

ServiceLevelRead ==
    /\ Called("serviceLevel", "Read")
    /\ \E out \in {serviceLevelResource_Read(req.data, resp.State, req.mode, db)} :
          Return(out)

ServiceLevelUpdate ==
    /\ Called("serviceLevel", "Update")
    /\ \E out \in {serviceLevelResource_Update(req.data, resp.State, req.mode,
                                               req.mode2, db)} : Return(out)

RoleRead ==
    /\ Called("role", "Read")
    /\ \E out \in {roleResource_Read(req.data, resp.State, req.mode, db)} : Return(out)

RoleUpdate ==
    /\ Called("role", "Update")
    /\ \E out \in {roleResource_Update(req.data, resp.State, req.mode, db)} : Return(out)

NextObjects ==
    \/ ObjectInvoke
    \/ ServiceLevelCreate
    \/ ServiceLevelRead
    \/ ServiceLevelUpdate
    \/ RoleRead
    \/ RoleUpdate
    \/ Complete

SpecObjects == Init /\ [][NextObjects]_vars

(***************************************************************************)
(* Properties of the service level and the role resource.                  *)
(***************************************************************************)
KnownValue(f) == ~f.null /\ ~f.unknown

ReturnedFrom(kind, ops) == pc = "returned" /\ req.data.kind = kind /\ req.op \in ops

\* C22: every CREATE or ALTER SERVICE LEVEL statement sent with a SHARES
\* clause carries a number from 1 to 1000, and a Create or Update whose
\* shares are outside that range is rejected before any statement is sent.
C22_SharesInRange ==
    ReturnedFrom("serviceLevel", {"Create", "Update"}) =>
        /\ \A i \in 1..Len(sent) :
              ClaimContains(sent[i], "SHARES = ") => req.data.Shares.value \in 1..1000
        /\ (KnownValue(req.data.Shares) /\ req.data.Shares.value \notin 1..1000) =>
              (sent = <<>> /\ HasError(resp.Diagnostics))

\* The text of a statement outside its quoted names and string literals.
\* ClaimScan gives, for the characters lo..hi of s and each way of entering
\* them (1: outside quotes, 2: inside '...', 3: inside "..."), the way of
\* leaving them and the characters met outside quotes.
ClaimScanOne(c) ==
    << IF c = "'" THEN [q |-> 2, out |-> ""]
       ELSE IF c = "\"" THEN [q |-> 3, out |-> ""]
       ELSE [q |-> 1, out |-> c],
       [q |-> IF c = "'" THEN 1 ELSE 2, out |-> ""],
       [q |-> IF c = "\"" THEN 1 ELSE 3, out |-> ""] >>

ClaimScanThen(l, right) == [q |-> right[l.q].q, out |-> l.out \o right[l.q].out]

ClaimScanBoth(left, right) ==
    << ClaimScanThen(left[1], right), ClaimScanThen(left[2], right),
       ClaimScanThen(left[3], right) >>

RECURSIVE ClaimScan(_, _, _)
ClaimScan(s, lo, hi) ==
    IF lo = hi
    THEN ClaimScanOne(SubSeq(s, lo, lo))
    ELSE CHOOSE both \in {ClaimScanBoth(left, right) :
                              left \in {ClaimScan(s, lo, (lo + hi) \div 2)},
                              right \in {ClaimScan(s, ((lo + hi) \div 2) + 1, hi)}} : TRUE

ClaimOutsideQuotes(s) == IF Len(s) = 0 THEN "" ELSE ClaimScan(s, 1, Len(s))[1].out

ClaimPlaces(s, sub) ==
    {i \in 1..Len(s) : i + Len(sub) - 1 <= Len(s) /\ SubSeq(s, i, i + Len(sub) - 1) = sub}

\* The clauses the request asks for, by keyword, in the attribute order.
ClaimPick(keyword, wanted) == IF wanted THEN <<keyword>> ELSE <<>>

ClaimDiffers(attr) == req.data[attr] # req.prior.raw[attr]

ClaimClauses ==
    IF req.data.kind = "role"
    THEN ClaimPick("LOGIN = ", ClaimDiffers("Login"))
         \o ClaimPick("SUPERUSER = ", ClaimDiffers("Superuser"))
         \o ClaimPick("PASSWORD = ", ClaimDiffers("Password") /\ ~req.data.Password.null)
    ELSE IF req.op = "Update"
    THEN ClaimPick("SHARES = ", ClaimDiffers("Shares") /\ KnownValue(req.data.Shares))
         \o ClaimPick("WORKLOAD_TYPE = ",
                      ClaimDiffers("WorkloadType") /\ KnownValue(req.data.WorkloadType))
         \o ClaimPick("TIMEOUT = ", ClaimDiffers("TimeoutMilliseconds")
                                    /\ KnownValue(req.data.TimeoutMilliseconds))
    ELSE ClaimPick("SHARES = ", KnownValue(req.data.Shares))
         \o ClaimPick("WORKLOAD_TYPE = ", KnownValue(req.data.WorkloadType))
         \o ClaimPick("TIMEOUT = ", KnownValue(req.data.TimeoutMilliseconds))

ClaimKeywords ==
    {"SHARES = ", "WORKLOAD_TYPE = ", "TIMEOUT = ", "LOGIN = ", "SUPERUSER = ", "PASSWORD = "}

\* text holds " WITH " once, right before the first of the clauses, and
\* " AND " once before each later clause, and no clause besides these.
ClaimJoinedClauses(text, clauses) ==
    /\ Cardinality(ClaimPlaces(text, " WITH ")) = (IF Len(clauses) >= 1 THEN 1 ELSE 0)
    /\ Cardinality(ClaimPlaces(text, " AND ")) =
          (IF Len(clauses) >= 1 THEN Len(clauses) - 1 ELSE 0)
    /\ Len(clauses) >= 1 => ClaimPlaces(text, " WITH " \o clauses[1]) # {}
    /\ \A j \in 2..Len(clauses) : ClaimPlaces(text, " AND " \o clauses[j]) # {}
    /\ \A j \in 1..(Len(clauses) - 1) :
          \A p \in ClaimPlaces(text, clauses[j]), q \in ClaimPlaces(text, clauses[j + 1]) :
              p < q
    /\ \A kw \in ClaimKeywords :
          Cardinality(ClaimPlaces(text, kw)) =
              (IF \E j \in 1..Len(clauses) : clauses[j] = kw THEN 1 ELSE 0)

SentClauses ==
    /\ sent # <<>>
    /\ \/ ReturnedFrom("serviceLevel", {"Create", "Update"})
       \/ ReturnedFrom("role", {"Update"})

\* C24 (as stated): a CREATE SERVICE LEVEL, ALTER SERVICE LEVEL or ALTER ROLE
\* statement with k >= 1 clauses contains " WITH " exactly once, right before
\* the first clause, and " AND " exactly k-1 times, one before each later
\* clause, in the attribute order; with k = 0 it contains neither.
C24_ClauseJoiningInText ==
    SentClauses =>
        \E clauses \in {ClaimClauses} : ClaimJoinedClauses(sent[1], clauses)

\* C24 (amended): the same, counting " WITH " and " AND " outside the quoted
\* name and the quoted values of the statement: a value may hold either text.
C24_ClauseJoining ==
    SentClauses =>
        \E text \in {ClaimOutsideQuotes(sent[1])}, clauses \in {ClaimClauses} :
            ClaimJoinedClauses(text, clauses)

\* An ALTER SERVICE LEVEL with all three clauses.
C24_Witness ==
    /\ ReturnedFrom("serviceLevel", {"Update"})
    /\ sent # <<>>
    /\ Len(ClaimClauses) = 3
    /\ sent[1] = "ALTER SERVICE LEVEL \"sl1\" WITH SHARES = 1 AND WORKLOAD_TYPE = 'batch' AND TIMEOUT = '500ms'"

\* The row a role Read got, when there is one whose cells decode.
RoleRowRead ==
    /\ ReturnedFrom("role", {"Read"})
    /\ req.mode.type = "result"
    /\ Len(req.mode.result.Rows) > 0
    /\ req.mode.result.Rows[1][1].type = "boolean"
    /\ req.mode.result.Rows[1][2].type = "boolean"
    /\ req.mode.result.Rows[1][3].type = "text"

ClaimBcryptScheme(hash) ==
    Len(hash) >= 4 /\ SubSeq(hash, 1, 4) \in {"$2a$", "$2y$"}

ClaimHashMatches(hash, password) ==
    hash \in {"$2a$10$<" \o password \o ">", "$2y$10$<" \o password \o ">"}

\* C26: a role Read that got a row overwrites login and superuser from the
\* row; it marks the password unknown, with an empty value, when the state's
\* password is not null and the salted hash is a bcrypt hash ($2a$ or $2y$)
\* that does not match it, and leaves the password as it is otherwise; a Read
\* that got no row removes the resource from the state.
C26_PasswordDrift ==
    /\ RoleRowRead =>
          LET row == req.mode.result.Rows[1]
          IN  /\ ~HasError(resp.Diagnostics)
              /\ resp.State.present /\ resp.State.written
              /\ resp.State.raw.Login = BoolValue(row[1].b)
              /\ resp.State.raw.Superuser = BoolValue(row[2].b)
              /\ resp.State.raw.Password =
                    IF /\ ~req.data.Password.null
                       /\ ClaimBcryptScheme(row[3].s)
                       /\ ~ClaimHashMatches(row[3].s, req.data.Password.value)
                    THEN [null |-> FALSE, unknown |-> TRUE, value |-> ""]
                    ELSE req.data.Password
    /\ (ReturnedFrom("role", {"Read"}) /\ req.mode.type = "result"
        /\ req.mode.result.Rows = <<>>) =>
          (~HasError(resp.Diagnostics) /\ resp.State.written /\ ~resp.State.present)

\* A password that the server's bcrypt hash no longer matches.
C26_Witness ==
    /\ RoleRowRead
    /\ req.data.Password = Str("pw")
    /\ req.mode.result.Rows[1][3].s = "$2y$10$<other>"
    /\ resp.State.raw.Password.unknown
    /\ resp.State.raw.Login.value # req.data.Login.value

\* A listing readData cannot take: the Executor failed, the timeout or the
\* workload_type column is missing, or a cell does not decode.
ClaimRereadFails(mode) ==
    \/ mode.type \in {"dial", "error"}
    \/ /\ mode.type = "result"
       /\ Len(mode.result.Rows) > 0
       /\ \/ \A i \in 1..Len(mode.result.ColSpec) : mode.result.ColSpec[i] # "timeout"
          \/ \A i \in 1..Len(mode.result.ColSpec) : mode.result.ColSpec[i] # "workload_type"
          \/ \E i \in 1..Len(mode.result.ColSpec) :
                \/ mode.result.ColSpec[i] = "timeout"
                   /\ mode.result.Rows[1][i].type \notin {"null", "duration"}
                \/ mode.result.ColSpec[i] = "workload_type"
                   /\ mode.result.Rows[1][i].type \notin {"null", "text"}
                \/ mode.result.ColSpec[i] = "shares"
                   /\ mode.result.Rows[1][i].type \notin {"null", "int"}

ClaimNoRows(mode) == mode.type = "result" /\ mode.result.Rows = <<>>

StateRemoved == resp.State.written /\ ~resp.State.present

\* C29: the service level Update removes the resource from the state only
\* when the re-read after the ALTER succeeded with zero rows; when the
\* re-read fails, Update reports the error and leaves the prior state, as
\* Read does.
C29_UpdateRereadFailureKeepsState ==
    /\ ReturnedFrom("serviceLevel", {"Update"}) =>
          /\ StateRemoved => (req.mode = Answered /\ ClaimNoRows(req.mode2))
          /\ (req.mode = Answered /\ ClaimRereadFails(req.mode2)) =>
                (HasError(resp.Diagnostics) /\ StateUntouched)
    /\ ReturnedFrom("serviceLevel", {"Read"}) =>
          /\ StateRemoved => ClaimNoRows(req.mode)
          /\ ClaimRereadFails(req.mode) => (HasError(resp.Diagnostics) /\ StateUntouched)

\* C30: an ALTER ROLE or ALTER SERVICE LEVEL statement that reaches the
\* Executor holds a WITH clause for at least one attribute, also when plan
\* and state do not differ or differ only in an attribute that is null or
\* unknown in the plan.
C30_AlterHasAClause ==
    pc = "returned" =>
        \A i \in 1..Len(sent) :
            StartsWith(sent[i], "ALTER ") =>
                \E text \in {ClaimOutsideQuotes(sent[i])}, kw \in ClaimKeywords :
                    ClaimContains(text, " WITH " \o kw)

====
